---- MODULE Spec2Model ----
(***************************************************************************)
(* Ring journal (storage::JournalStorage) with the simple variable record  *)
(* format (storage::SimpleVariableJournalFormat) on the in-memory byte     *)
(* storage (storage::TestByteStorage).  The device is modelled byte by     *)
(* byte; 32-bit words are kept as four little-endian bytes so that their   *)
(* arithmetic wraps at 2^32 exactly as in the code.                        *)
(***************************************************************************)
EXTENDS Integers, Sequences, FiniteSets, TLC

VARIABLES
    size,           \* ByteStorage::size
    sectorMask,     \* ByteStorage::sectorMask
    data,           \* TestByteStorage::data, a function 0..size-1 -> byte
    firstSector,    \* JournalStorage::firstSector
    lastSector,     \* JournalStorage::lastSector
    freeOffset,     \* JournalStorage::freeOffset
    maxRecord,      \* JournalStorage::maxRecord
    last,           \* JournalStorage::last (SectorInfo of the last sector)
    rw,             \* the caller's RecordWriter plus a flag: allocated, not yet committed
    scanned,        \* Scan has run on this engine object
    fault,          \* "none", or the ASSERT that aborted the program
    hist,           \* ghost: one entry per record allocated by BeginWrite, in order
    nRestarts,      \* ghost: number of restarts so far
    lastOp,         \* ghost: the last call made on the journal
    probe,          \* ghost: the last InitRecord size computed for a large sector
    saved,          \* ghost: what the engine reported when it was last torn down
    worn,           \* the sectors of the device whose Erase fails
    initFails,      \* the format's InitSector fails on this device
    torn,           \* ghost: the sector header that a power loss left half programmed
    stuck,          \* the addresses where the format's ScanRecord reports a Bad record
                    \* with nextRecord = 0
    call,           \* ghost: a call on a device or a view of it, with its arguments
                    \* and what it did
    flash           \* the SPI flash driver, its bus, its chip and the tasks that use it

vars == <<size, sectorMask, data, firstSector, lastSector, freeOffset, maxRecord,
          last, rw, scanned, fault, hist, nRestarts, lastOp, probe, saved,
          worn, initFails, torn, stuck, call, flash>>

----------------------------------------------------------------------------
(* Bounds of the model *)

\* number of BeginWrite / Write calls explored
MaxWrites == 4
\* number of engine restarts (teardown, new engine on the same device) explored
MaxRestarts == 1
\* records allocated where the caller also closes sectors, and where it drives
\* BeginWrite, the writer and EndWrite one by one
MaxClosedWrites == 3
MaxBegins == 3
\* records written on the devices whose sequences wrap
MaxWrapWrites == 3

\* (size, sectorSize) pairs handed to TestByteStorage's constructor: rings of two
\* and of four sectors, and a single sector, which Initialize rejects
Geometries == { <<32, 16>>, <<64, 16>>, <<16, 16>> }
\* sector sizes around the largest payload of the format, for which only the
\* size computation of InitRecord is explored
LargeSectorSizes == { 32768, 65536 }
\* payload lengths passed to Write: none, small, one byte short of the sector,
\* the whole sector, and more than a sector
WriteLengths == { 0, 1, 5, 6, 16 }
\* payload lengths passed to BeginWrite
BeginLengths == { 0, 2, 6 }
\* payload lengths passed to Write on a device with arbitrary content
MediaLengths == { 1, 6 }

----------------------------------------------------------------------------
(* Bytes and 32-bit words *)

\* stands for ~0u: an address outside every device
NoSector == -1

\* the format's magic, ID("TEST"), as stored on the media
magic == << 84, 69, 83, 84 >>

\* a local variable: In applied to the value v
Let(v, In(_)) == In(v)

RECURSIVE BitAnd(_, _)
BitAnd(a, b) ==
    IF a = 0 \/ b = 0 THEN 0
    ELSE (a % 2) * (b % 2) + 2 * BitAnd(a \div 2, b \div 2)

IsAllOnes(bytes) == \A i \in DOMAIN bytes : bytes[i] = 255

\* a 32-bit word from a small natural number, little-endian
U32(n) == << n % 256, (n \div 256) % 256, (n \div 65536) % 256, 0 >>

\* w + 1 modulo 2^32
U32Inc(w) ==
    IF w[1] < 255 THEN << w[1] + 1, w[2], w[3], w[4] >>
    ELSE IF w[2] < 255 THEN << 0, w[2] + 1, w[3], w[4] >>
    ELSE IF w[3] < 255 THEN << 0, 0, w[3] + 1, w[4] >>
    ELSE << 0, 0, 0, (w[4] + 1) % 256 >>

\* a - b modulo 2^32
U32Sub(a, b) ==
    LET d1 == a[1] - b[1]
        c1 == IF d1 < 0 THEN 1 ELSE 0
        d2 == a[2] - b[2] - c1
        c2 == IF d2 < 0 THEN 1 ELSE 0
        d3 == a[3] - b[3] - c2
        c3 == IF d3 < 0 THEN 1 ELSE 0
        d4 == a[4] - b[4] - c3
    IN  << d1 % 256, d2 % 256, d3 % 256, d4 % 256 >>

\* (int32_t)(a - b) > 0
OVF_GT(a, b) ==
    Let(U32Sub(a, b), LAMBDA d : d[4] < 128 /\ d # << 0, 0, 0, 0 >>)

Min(a, b) == IF a < b THEN a ELSE b
Max(a, b) == IF a > b THEN a ELSE b

----------------------------------------------------------------------------
(* ByteStorage geometry; st is a record with the fields size and sectorMask *)

\* the two ASSERTs of Initialize: sectorSize has exactly one bit set, and
\* size has the bit of sectorSize clear
IsPowerOfTwo(n) == \E k \in 0..30 : n = 2^k
InitializeAccepts(sz, sectorSize) ==
    /\ IsPowerOfTwo(sectorSize)
    /\ BitAnd(sz, sectorSize) = 0

SectorSize(st) == st.sectorMask + 1
SectorAddress(st, addr) == addr - (addr % SectorSize(st))
IsSameSector(st, addr1, addr2) == (addr1 \div SectorSize(st)) = (addr2 \div SectorSize(st))
SectorRemaining(st, addr) == SectorSize(st) - (addr % SectorSize(st))

\* ring helpers of JournalStorage
PreviousSectorAddr(st, addr) == (IF addr = 0 THEN st.size ELSE addr) - SectorSize(st)
NextSectorAddr(st, addr) ==
    IF addr + SectorSize(st) = st.size THEN 0 ELSE addr + SectorSize(st)

----------------------------------------------------------------------------
(* TestByteStorage: the device.  st carries size, sectorMask and data.     *)

\* TestByteStorage::pageSize
pageSize == 256

\* the two ASSERTs at the head of every device operation
InRange(st, addr, length) == addr <= st.size /\ addr + length <= st.size

\* ReadImpl: every block is copied from data + addr
ReadImpl(st, addr, length) ==
    [ i \in 1..length |-> st.data[addr + ((i - 1) % pageSize)] ]

\* WriteImpl: each byte is ANDed into the array
WriteImpl(dat, addr, bytes) ==
    [ a \in DOMAIN dat |->
        IF a >= addr /\ a < addr + Len(bytes)
        THEN BitAnd(dat[a], bytes[a - addr + 1])
        ELSE dat[a] ]

IsAll(st, addr, value, length) ==
    \A a \in addr..(addr + length - 1) : st.data[a] = value

\* EraseFirst: [data, next]; next = addr when nothing was erased
EraseFirst(st, dat, addr, length) ==
    Let(SectorAddress(st, addr), LAMBDA start :
      IF start + SectorSize(st) <= SectorAddress(st, addr + length + st.sectorMask)
      THEN [ data |-> [ a \in DOMAIN dat |->
                          IF a >= start /\ a < start + SectorSize(st)
                          THEN 255 ELSE dat[a] ],
             next |-> start + SectorSize(st) ]
      ELSE [ data |-> dat, next |-> addr ])

RECURSIVE EraseLoop(_, _, _, _)
EraseLoop(st, dat, start, end) ==
    IF start < end
    THEN Let(EraseFirst(st, dat, start, end - start), LAMBDA ef :
           IF ef.next = start
           THEN [ data |-> ef.data, ok |-> FALSE ]
           ELSE EraseLoop(st, ef.data, ef.next, end))
    ELSE [ data |-> dat, ok |-> TRUE ]

\* Erase: [data, ok]
Erase(st, addr, length) ==
    EraseLoop(st, st.data, SectorAddress(st, addr),
              SectorAddress(st, addr + length + st.sectorMask))

----------------------------------------------------------------------------
(* ByteStorageSpan: a record with the fields addr and length *)

GetSpan(addr, length) == [ addr |-> addr, length |-> length ]
SectorSpan(st, addr) == [ addr |-> SectorAddress(st, addr), length |-> SectorSize(st) ]
RestOfSectorSpan(st, addr) == [ addr |-> addr, length |-> SectorRemaining(st, addr) ]

LimitLength(span, offset, length) == Max(0, Min(span.length - offset, length))

\* ByteStorageSpan::Read into a zeroed buffer of n bytes: [ok, bytes]
SpanRead(st, span, offset, n) ==
    Let(LimitLength(span, offset, n), LAMBDA k :
      IF ~InRange(st, span.addr + offset, k)
      THEN [ ok |-> FALSE, bytes |-> [ i \in 1..n |-> 0 ] ]
      ELSE [ ok |-> TRUE,
             bytes |-> [ i \in 1..n |->
                           IF i <= k THEN ReadImpl(st, span.addr + offset, k)[i]
                           ELSE 0 ] ])

\* ByteStorageSpan::Write: [ok, data]
SpanWrite(st, dat, span, offset, bytes) ==
    Let(LimitLength(span, offset, Len(bytes)), LAMBDA k :
      IF ~InRange(st, span.addr + offset, k)
      THEN [ ok |-> FALSE, data |-> dat ]
      ELSE [ ok |-> TRUE,
             data |-> WriteImpl(dat, span.addr + offset, SubSeq(bytes, 1, k)) ])

----------------------------------------------------------------------------
(* SimpleVariableJournalFormat *)

\* sizeof(PageHeader), sizeof(RecordHeader), the largest payload of the format
PageHeaderSize == 8
RecordHeaderSize == 2
MaxPayload == 32767

\* a zero-initialised SectorInfo / RecordInfo
SectorInfo0 ==
    [ sequence |-> << 0, 0, 0, 0 >>, firstRecord |-> 0, fixedRecordSize |-> 0,
      state |-> "Bad" ]
RecordInfo0 == [ payload |-> 0, nextRecord |-> 0, state |-> "Bad" ]

SectorIsValid(info) == info.state \in { "Valid", "ValidPreceding" }

\* RecordHeader accessors on the 16-bit size field
HdrIsEmpty(hsize) == hsize = 65535
HdrIsBad(hsize) == hsize >= 32768
HdrSize(hsize) == hsize % 32768

\* ScanSector: [ok, info]; following is << >> (NULL) or << SectorInfo >>
ScanSector(st, sector, info, following) ==
    Let(SpanRead(st, sector, 0, PageHeaderSize), LAMBDA rd :
      IF ~rd.ok THEN [ ok |-> FALSE, info |-> info ]
      ELSE
        [ ok |-> TRUE,
          info |->
            [ info EXCEPT
                !.firstRecord = PageHeaderSize,
                !.sequence = SubSeq(rd.bytes, 5, 8),
                !.state =
                  IF IsAllOnes(rd.bytes) THEN "Empty"
                  ELSE IF SubSeq(rd.bytes, 1, 4) # magic THEN "Bad"
                  ELSE IF Len(following) = 1
                          /\ U32Inc(SubSeq(rd.bytes, 5, 8)) = following[1].sequence
                       THEN "ValidPreceding"
                  ELSE "Valid" ] ])

\* ScanRecord: [ok, info, ret]
ScanRecord(st, sectorRemaining) ==
    Let(SpanRead(st, sectorRemaining, 0, RecordHeaderSize), LAMBDA rd :
      Let(rd.bytes[1] + 256 * rd.bytes[2], LAMBDA hsize :
        [ ok |-> rd.ok,
          info |-> [ payload |-> HdrSize(hsize),
                     nextRecord |-> HdrSize(hsize) + RecordHeaderSize,
                     state |-> IF HdrIsEmpty(hsize) THEN "Empty"
                               ELSE IF HdrIsBad(hsize) THEN "Bad"
                               ELSE "Valid" ],
          ret |-> RecordHeaderSize ]))

\* an InitSector that reports no room for the sector header
InitSector_NoFirstRecord(st, sector, info) ==
    Let(U32Inc(IF SectorIsValid(info) THEN info.sequence ELSE << 0, 0, 0, 0 >>),
        LAMBDA sq :
      Let(SpanWrite(st, st.data, sector, 4, sq), LAMBDA w1 :
        Let(SpanWrite(st, w1.data, sector, 0, magic), LAMBDA w2 :
          [ ok |-> w1.ok /\ w2.ok,
            data |-> IF w1.ok THEN w2.data ELSE w1.data,
            info |-> [ info EXCEPT !.sequence = sq, !.firstRecord = 0,
                                   !.state = "Valid" ] ])))

\* an InitSector that numbers every sector 1
InitSector_FromOne(st, sector, info) ==
    Let(SpanWrite(st, st.data, sector, 4, << 1, 0, 0, 0 >>), LAMBDA w1 :
      Let(SpanWrite(st, w1.data, sector, 0, magic), LAMBDA w2 :
        [ ok |-> w1.ok /\ w2.ok,
          data |-> IF w1.ok THEN w2.data ELSE w1.data,
          info |-> [ info EXCEPT !.sequence = << 1, 0, 0, 0 >>,
                                 !.firstRecord = PageHeaderSize,
                                 !.state = "Valid" ] ]))

\* InitSector: [ok, data, info]
InitSector(st, sector, info) ==
    Let(U32Inc(IF SectorIsValid(info) THEN info.sequence ELSE << 0, 0, 0, 0 >>),
        LAMBDA sq :
      Let(SpanWrite(st, st.data, sector, 4, sq), LAMBDA w1 :
        Let(SpanWrite(st, w1.data, sector, 0, magic), LAMBDA w2 :
          [ ok |-> w1.ok /\ w2.ok,
            data |-> IF w1.ok THEN w2.data ELSE w1.data,
            info |-> [ info EXCEPT !.sequence = sq, !.firstRecord = PageHeaderSize,
                                   !.state = "Valid" ] ])))

\* InitRecord that limits the payload to the rest of the sector at every
\* position, not only at the first record of a sector
InitRecordSize_LimitsEverywhere(st, sectorRemaining, payload) ==
    IF sectorRemaining.length < RecordHeaderSize THEN Min(payload, MaxPayload)
    ELSE Min(Min(payload, MaxPayload), sectorRemaining.length - RecordHeaderSize)

\* the payload length InitRecord settles on
InitRecordSize(st, sectorRemaining, payload) ==
    Let(Min(payload, MaxPayload), LAMBDA s1 :
      IF sectorRemaining.addr % SectorSize(st) = PageHeaderSize
      THEN \* Size() - sizeof(RecordHeader) is unsigned: it wraps below zero
           IF sectorRemaining.length < RecordHeaderSize THEN s1
           ELSE Min(s1, sectorRemaining.length - RecordHeaderSize)
      ELSE s1)

\* an InitRecord that refuses the record that ends at the end of the sector
InitRecord_NoExactFit(st, sectorRemaining, info, payload) ==
    Let(InitRecordSize(st, sectorRemaining, payload), LAMBDA hs :
      IF RecordHeaderSize + hs >= sectorRemaining.length
      THEN [ ok |-> TRUE, data |-> st.data,
             info |-> [ info EXCEPT !.state = "Bad" ], ret |-> 0 ]
      ELSE Let(SpanWrite(st, st.data, sectorRemaining, 0,
                         << hs % 256, (hs \div 256) + 128 >>), LAMBDA w :
             [ ok |-> w.ok, data |-> w.data,
               info |-> [ payload |-> hs, nextRecord |-> RecordHeaderSize + hs,
                          state |-> "Valid" ],
               ret |-> RecordHeaderSize ]))

\* InitRecord: [ok, data, info, ret]
InitRecord(st, sectorRemaining, info, payload) ==
    Let(InitRecordSize(st, sectorRemaining, payload), LAMBDA hs :
      IF RecordHeaderSize + hs > sectorRemaining.length
      THEN [ ok |-> TRUE, data |-> st.data,
             info |-> [ info EXCEPT !.state = "Bad" ], ret |-> 0 ]
      ELSE Let(SpanWrite(st, st.data, sectorRemaining, 0,
                         << hs % 256, (hs \div 256) + 128 >>), LAMBDA w :
             [ ok |-> w.ok, data |-> w.data,
               info |-> [ payload |-> hs, nextRecord |-> RecordHeaderSize + hs,
                          state |-> "Valid" ],
               ret |-> RecordHeaderSize ]))

\* the ASSERT of CommitRecord
CommitAssert(st, payload) ==
    payload.addr >= RecordHeaderSize
    /\ IsSameSector(st, payload.addr, payload.addr - RecordHeaderSize)

\* CommitRecord: the device after the program of 0x7FFF over the size field
CommitRecord(st, payload) ==
    WriteImpl(st.data, payload.addr - RecordHeaderSize, << 255, 127 >>)

----------------------------------------------------------------------------
(* JournalStorage.  m is a record with the fields of the device (size,      *)
(* sectorMask, data), the fields of the engine (firstSector, lastSector,    *)
(* freeOffset, maxRecord, last) and fault, the ASSERT that stopped the      *)
(* program ("none" while it runs).                                          *)

Failed(m) == m.fault # "none"
Fail(m, what) == [ m EXCEPT !.fault = what ]

\* EnumerateRecords: RecordEnumerator(sector)
EnumerateRecords(sector) ==
    [ r |-> sector, rNext |-> sector, len |-> 0, si |-> SectorInfo0 ]

\* RecordEnumerator::IsEmpty
ReIsEmpty(re) == re.r = re.rNext

\* format.ScanRecord of a format that may report a Bad record that cannot be
\* skipped: nextRecord = 0
FormatScanRecord(m, sectorRemaining) ==
    IF sectorRemaining.addr \in m.stuck
    THEN [ ok |-> TRUE, info |-> [ payload |-> 0, nextRecord |-> 0, state |-> "Bad" ],
           ret |-> RecordHeaderSize ]
    ELSE ScanRecord(m, sectorRemaining)

\* the while loop of NextRecord: [re, ret, ok]
RECURSIVE NextRecordLoop(_, _)
NextRecordLoop(m, re) ==
    IF ~IsSameSector(m, re.r, re.rNext)
    THEN [ re |-> re, ret |-> 0, ok |-> TRUE ]
    ELSE
      LET r1 == re.rNext
      IN  IF ~(r1 < m.size)
          THEN [ re |-> [ re EXCEPT !.r = r1 ], ret |-> 0, ok |-> FALSE ]
          ELSE
            Let(FormatScanRecord(m, RestOfSectorSpan(m, r1)), LAMBDA sr :
              LET ri == sr.info
                  rn == r1 + sr.info.nextRecord
              IN  IF ~sr.ok
                  THEN [ re |-> [ re EXCEPT !.r = r1 ], ret |-> 0, ok |-> FALSE ]
                  ELSE IF ri.state = "Empty"
                  THEN [ re |-> [ re EXCEPT !.r = r1 ], ret |-> 0, ok |-> TRUE ]
                  ELSE IF ri.state = "Bad"
                  THEN IF rn # r1
                       THEN NextRecordLoop(m, [ re EXCEPT !.r = r1, !.rNext = rn ])
                       ELSE [ re |-> [ re EXCEPT !.r = r1, !.rNext = rn - 1 ],
                              ret |-> 0, ok |-> TRUE ]
                  ELSE [ re |-> [ re EXCEPT !.r = r1 + sr.ret, !.rNext = rn,
                                            !.len = ri.payload ],
                         ret |-> ri.payload, ok |-> TRUE ])

\* NextRecord: [re, ret, ok]; ok = FALSE when an ASSERT of the device failed
NextRecord(m, re) ==
    IF re.r = re.rNext /\ re.si.state = "Bad"
    THEN IF ~(re.r < m.size)
         THEN [ re |-> re, ret |-> 0, ok |-> FALSE ]
         ELSE Let(ScanSector(m, SectorSpan(m, re.r), re.si, << >>), LAMBDA ss :
                LET re1 == [ re EXCEPT !.si = ss.info,
                                       !.rNext = re.r + ss.info.firstRecord ]
                IN  IF ~ss.ok THEN [ re |-> re, ret |-> 0, ok |-> FALSE ]
                    ELSE IF ~SectorIsValid(ss.info)
                    THEN [ re |-> re1, ret |-> 0, ok |-> TRUE ]
                    ELSE NextRecordLoop(m, re1))
    ELSE IF ~SectorIsValid(re.si)
    THEN [ re |-> re, ret |-> 0, ok |-> TRUE ]
    ELSE NextRecordLoop(m, re)

\* ReadRecord with a buffer that takes the whole record: [ok, bytes]
ReadRecord(m, re) ==
    IF SectorIsValid(re.si) /\ 0 < re.len
    THEN IF InRange(m, re.r, re.len)
         THEN [ ok |-> TRUE, bytes |-> ReadImpl(m, re.r, re.len) ]
         ELSE [ ok |-> FALSE, bytes |-> << >> ]
    ELSE [ ok |-> TRUE, bytes |-> << >> ]

\* NextSector(SectorEnumerator&): [s, ret, ok]; s = NoSector is the reset enumerator
RECURSIVE NextSector(_, _)
NextSector(m, s) ==
    IF s = m.lastSector
    THEN [ s |-> NoSector, ret |-> FALSE, ok |-> TRUE ]
    ELSE Let(IF s = NoSector THEN m.firstSector ELSE NextSectorAddr(m, s), LAMBDA s1 :
           IF ~(s1 >= 0 /\ s1 < m.size)
           THEN [ s |-> s1, ret |-> FALSE, ok |-> FALSE ]
           ELSE IF SectorIsValid(ScanSector(m, SectorSpan(m, s1), SectorInfo0,
                                            << >>).info)
           THEN [ s |-> s1, ret |-> TRUE, ok |-> TRUE ]
           ELSE NextSector(m, s1))

\* a PreviousSector that walks as NextSector does
PreviousSector_AsNextSector(m, s) == NextSector(m, s)

\* PreviousSector(SectorEnumerator&): [s, ret, ok]
RECURSIVE PreviousSector(_, _)
PreviousSector(m, s) ==
    IF s = m.firstSector
    THEN [ s |-> NoSector, ret |-> FALSE, ok |-> TRUE ]
    ELSE Let(IF s = NoSector THEN m.lastSector ELSE PreviousSectorAddr(m, s), LAMBDA s1 :
           IF ~(s1 >= 0 /\ s1 < m.size)
           THEN [ s |-> s1, ret |-> FALSE, ok |-> FALSE ]
           ELSE IF SectorIsValid(ScanSector(m, SectorSpan(m, s1), SectorInfo0,
                                            << >>).info)
           THEN [ s |-> s1, ret |-> TRUE, ok |-> TRUE ]
           ELSE PreviousSector(m, s1))

----------------------------------------------------------------------------
(* Scan *)

\* a Scan that takes every sector that is later than the best one so far
ScanReplaces_BestOnly(si, f) == OVF_GT(si.sequence, f.siLast.sequence)

\* the test of the first loop of Scan: the sector just scanned becomes the last
ScanReplaces(si, f) ==
    OVF_GT(si.sequence, f.siLast.sequence) /\ OVF_GT(si.sequence, f.baseSeq)

\* the first loop of Scan, from sector addr on: [lastSector, siLast, baseSeq, si, ok]
RECURSIVE ScanForward(_, _, _)
ScanForward(m, addr, f) ==
    IF ~(addr < m.size) THEN f
    ELSE
      Let(ScanSector(m, SectorSpan(m, addr), f.si, << >>), LAMBDA ss :
        LET si == ss.info
            f1 == [ f EXCEPT !.si = ss.info ]
        IN  IF ~ss.ok THEN [ f1 EXCEPT !.ok = FALSE ]
            ELSE IF si.state = "Empty" \/ ~SectorIsValid(si)
            THEN ScanForward(m, addr + SectorSize(m), f1)
            ELSE IF f.lastSector = NoSector
            THEN ScanForward(m, addr + SectorSize(m),
                     [ f1 EXCEPT !.baseSeq = si.sequence, !.lastSector = addr,
                                 !.siLast = si ])
            ELSE IF ~ScanReplaces(si, f)
            THEN ScanForward(m, addr + SectorSize(m), f1)
            ELSE ScanForward(m, addr + SectorSize(m),
                     [ f1 EXCEPT !.lastSector = addr, !.siLast = si ]))

\* while (await(NextRecord, f.re)) {} : [re, ok]
RECURSIVE ScanRecords(_, _)
ScanRecords(m, re) ==
    Let(NextRecord(m, re), LAMBDA nr :
      IF ~nr.ok THEN [ re |-> nr.re, ok |-> FALSE ]
      ELSE IF nr.ret # 0 THEN ScanRecords(m, nr.re)
      ELSE [ re |-> nr.re, ok |-> TRUE ])

\* a Scan that adds to the freeOffset it finds in the engine
ScanFreeOffset_Accumulates(m, lastS, re) ==
    IF ReIsEmpty(re) THEN m.freeOffset + re.r - lastS ELSE 0

\* the freeOffset Scan derives from the enumerator left by the record walk
ScanFreeOffset(m, lastS, re) ==
    IF ReIsEmpty(re) THEN re.r - lastS ELSE 0

\* a Scan that does not walk back from the last sector
ScanBackward_Stays(m, lastS, addr, firstS, f) == firstS

\* the backward loop of Scan: the firstSector it ends with
RECURSIVE ScanBackward(_, _, _, _, _)
ScanBackward(m, lastS, addr, firstS, f) ==
    IF addr = lastS THEN firstS
    ELSE
      Let(ScanSector(m, SectorSpan(m, addr), f.si, << f.siFirst >>).info, LAMBDA si :
        IF si.state = "ValidPreceding"
        THEN ScanBackward(m, lastS, PreviousSectorAddr(m, addr), addr,
                          [ f EXCEPT !.si = si, !.siFirst = si ])
        ELSE IF SectorIsValid(si)
        THEN firstS
        ELSE ScanBackward(m, lastS, PreviousSectorAddr(m, addr), firstS,
                          [ f EXCEPT !.si = si ]))

\* JournalStorage::Scan
Scan(m) ==
    Let(ScanForward(m, 0,
            [ lastSector |-> NoSector, siLast |-> SectorInfo0,
              baseSeq |-> << 0, 0, 0, 0 >>, si |-> SectorInfo0, ok |-> TRUE ]),
        LAMBDA f :
      IF f.lastSector = NoSector
      THEN [ m EXCEPT !.firstSector = 0, !.lastSector = 0, !.freeOffset = 0,
                      !.last = SectorInfo0 ]
      ELSE
        Let([ m EXCEPT !.lastSector = f.lastSector ], LAMBDA m1 :
        Let(ScanRecords(m1, EnumerateRecords(f.lastSector)), LAMBDA sr :
          IF ~sr.ok THEN Fail(m1, "Read")
          ELSE
            [ m1 EXCEPT
                !.freeOffset = ScanFreeOffset(m1, f.lastSector, sr.re),
                !.firstSector =
                   ScanBackward(m1, f.lastSector,
                       PreviousSectorAddr(m1, f.lastSector), f.lastSector,
                       [ si |-> f.si, siFirst |-> f.siLast ]),
                !.last = f.siLast ])))

----------------------------------------------------------------------------
(* Sector rotation *)

\* the loop of AdvanceSector that looks for the new firstSector
RECURSIVE AdvanceFirst(_, _)
AdvanceFirst(m, addr) ==
    IF addr = m.lastSector THEN m
    ELSE IF SectorIsValid(ScanSector(m, SectorSpan(m, addr), SectorInfo0, << >>).info)
    THEN [ m EXCEPT !.firstSector = addr ]
    ELSE AdvanceFirst(m, NextSectorAddr(m, addr))

\* JournalStorage::AdvanceSector
AdvanceSector(m) ==
    Let([ m EXCEPT !.lastSector = NextSectorAddr(m, m.lastSector),
                   !.freeOffset = 0 ], LAMBDA m1 :
      IF m1.lastSector # m1.firstSector THEN m1
      ELSE AdvanceFirst(m1, NextSectorAddr(m1, m1.firstSector)))

\* storage.Erase on a device some of whose sectors no longer erase: [data, ok]
StorageErase(m, addr, length) ==
    IF SectorAddress(m, addr) \in m.worn
    THEN [ data |-> m.data, ok |-> FALSE ]
    ELSE Erase(m, addr, length)

\* format.InitSector of a format that may fail to initialise a sector; it then
\* reports the sector as Bad
FormatInitSector(m, sector, info) ==
    IF m.initFails
    THEN [ ok |-> TRUE, data |-> m.data, info |-> [ info EXCEPT !.state = "Bad" ] ]
    ELSE InitSector(m, sector, info)

\* a NewSector that never erases
NewSectorErase_Never(m) == m.data

\* the device after the blank check and erase of NewSector; the result of
\* Erase is not looked at
NewSectorErase(m) ==
    IF ~IsAll(m, m.lastSector, 255, SectorSize(m))
    THEN StorageErase(m, m.lastSector, SectorSize(m)).data
    ELSE m.data

\* the for (;;) of NewSector
\* seen holds the states in which the loop has started a round: a round that
\* starts in one of them repeats for ever, and NewSector never returns
RECURSIVE NewSectorLoop(_, _)
NewSectorLoop(m, seen) ==
    IF m \in seen THEN Fail(m, "NewSector") ELSE
    Let([ m EXCEPT !.data = NewSectorErase(m) ], LAMBDA m1 :
      Let(FormatInitSector(m1, SectorSpan(m1, m1.lastSector), m1.last), LAMBDA is :
        Let([ m1 EXCEPT !.data = is.data, !.last = is.info ], LAMBDA m2 :
          IF ~is.ok THEN Fail(m2, "Write")
          ELSE IF ~SectorIsValid(m2.last)
          THEN NewSectorLoop(AdvanceSector(m2), seen \cup { m })
          ELSE [ m2 EXCEPT !.freeOffset = m2.last.firstRecord ])))

\* JournalStorage::NewSector
NewSector(m) ==
    NewSectorLoop(IF m.freeOffset # 0 THEN AdvanceSector(m) ELSE m, { })

\* JournalStorage::CloseSector
CloseSector(m) ==
    IF m.freeOffset # 0 THEN AdvanceSector(m) ELSE m

----------------------------------------------------------------------------
(* Append *)

\* a default-constructed RecordWriter
NoWriter == [ addr |-> 0, length |-> 0 ]

\* the for (;;) of BeginWrite: [m, writer, ret, rounds]
RECURSIVE BeginWriteLoop(_, _, _, _)
BeginWriteLoop(m, ri, length, rounds) ==
    Let(m.freeOffset = 0 \/ m.freeOffset >= SectorSize(m), LAMBDA need :
    Let(IF need THEN NewSector(m) ELSE m, LAMBDA m1 :
      IF Failed(m1)
      THEN [ m |-> m1, writer |-> NoWriter, ret |-> FALSE, rounds |-> rounds ]
      ELSE IF need /\ ~(m1.freeOffset > 0 /\ m1.freeOffset < SectorSize(m1))
      THEN [ m |-> Fail(m1, "BeginWrite"), writer |-> NoWriter, ret |-> FALSE,
             rounds |-> rounds ]
      ELSE IF ~(m1.lastSector + m1.freeOffset < m1.size)
      THEN [ m |-> Fail(m1, "RestOfSectorSpan"), writer |-> NoWriter, ret |-> FALSE,
             rounds |-> rounds ]
      ELSE
        Let(InitRecord(m1, RestOfSectorSpan(m1, m1.lastSector + m1.freeOffset),
                       ri, length), LAMBDA ir :
        Let(m1.freeOffset + ir.info.nextRecord, LAMBDA fo :
        Let([ m1 EXCEPT !.data = ir.data, !.freeOffset = fo,
                        !.maxRecord = Max(0, SectorSize(m1) - fo - ir.ret) ],
            LAMBDA m2 :
        Let(m2.lastSector + fo - ir.info.nextRecord + ir.ret, LAMBDA wa :
          IF ~ir.ok
          THEN [ m |-> Fail(m2, "Write"), writer |-> NoWriter, ret |-> FALSE,
                 rounds |-> rounds ]
          ELSE IF ir.info.state = "Valid"
          THEN IF InRange(m2, wa, ir.info.payload)
               THEN [ m |-> m2, writer |-> GetSpan(wa, ir.info.payload),
                      ret |-> TRUE, rounds |-> rounds ]
               ELSE [ m |-> Fail(m2, "GetSpan"), writer |-> NoWriter,
                      ret |-> FALSE, rounds |-> rounds ]
          ELSE IF ~(ir.info.state = "Bad" /\ ir.info.nextRecord # 0)
          THEN BeginWriteLoop([ m2 EXCEPT !.freeOffset = SectorSize(m2) ],
                              ir.info, length, rounds + 1)
          ELSE BeginWriteLoop(m2, ir.info, length, rounds + 1)))))))

\* JournalStorage::BeginWrite
BeginWrite(m, length) == BeginWriteLoop(m, RecordInfo0, length, 1)

\* JournalStorage::EndWrite: CommitRecord on the writer's span
EndWrite(m, writer) ==
    IF ~CommitAssert(m, writer) THEN Fail(m, "CommitRecord")
    ELSE [ m EXCEPT !.data = CommitRecord(m, writer) ]

\* RecordWriter::Write(0, bytes): the payload program through the writer's span
WriterWrite(m, writer, bytes) ==
    Let(SpanWrite(m, m.data, writer, 0, bytes), LAMBDA w :
      IF ~w.ok THEN Fail(m, "Write") ELSE [ m EXCEPT !.data = w.data ])

\* JournalStorage::Write: [m, writer, ret]
Write(m, bytes) ==
    Let(BeginWrite(m, Len(bytes)), LAMBDA bw :
      IF ~bw.ret THEN [ m |-> bw.m, writer |-> bw.writer, ret |-> FALSE ]
      ELSE Let(WriterWrite(bw.m, bw.writer, bytes), LAMBDA m1 :
           Let(IF Failed(m1) THEN m1 ELSE EndWrite(m1, bw.writer), LAMBDA m2 :
             [ m |-> m2, writer |-> bw.writer, ret |-> ~Failed(m2) ])))

----------------------------------------------------------------------------
(* The caller's enumeration loops, as in the tests:                         *)
(*   EnumerateSectors(se); while (NextSector(se))                           *)
(*     { EnumerateRecords(re, se); while (NextRecord(re)) read the record } *)

\* the inner loop: [recs, ok]; ok = FALSE when an ASSERT stopped the program
RECURSIVE EnumRecordsLoop(_, _, _)
EnumRecordsLoop(m, re, acc) ==
    Let(NextRecord(m, re), LAMBDA nr :
      IF ~nr.ok THEN [ recs |-> acc, ok |-> FALSE ]
      ELSE IF nr.ret = 0 THEN [ recs |-> acc, ok |-> TRUE ]
      ELSE Let(ReadRecord(m, nr.re), LAMBDA rd :
           Let([ addr |-> nr.re.r, len |-> nr.ret, bytes |-> rd.bytes ], LAMBDA rec :
             IF ~rd.ok THEN [ recs |-> Append(acc, rec), ok |-> FALSE ]
             ELSE EnumRecordsLoop(m, nr.re, Append(acc, rec)))))

\* the outer loop
RECURSIVE EnumSectorsLoop(_, _, _)
EnumSectorsLoop(m, s, acc) ==
    Let(NextSector(m, s), LAMBDA ns :
      IF ~ns.ok \/ ~ns.ret THEN [ recs |-> acc, ok |-> ns.ok ]
      ELSE Let(EnumRecordsLoop(m, EnumerateRecords(ns.s), acc), LAMBDA er :
             IF ~er.ok THEN er ELSE EnumSectorsLoop(m, ns.s, er.recs)))

ForwardEnumeration(m) == EnumSectorsLoop(m, NoSector, << >>)

----------------------------------------------------------------------------
(* The state machine: one caller task drives one journal.                   *)

\* no size computation observed
NoProbe == [ sectorSize |-> 0, length |-> 0, size |-> 0 ]
\* no sector header torn
NoTorn == [ sector |-> NoSector, sequence |-> << 0, 0, 0, 0 >> ]

\* the machine record of the current state
M == [ size |-> size, sectorMask |-> sectorMask, data |-> data,
       firstSector |-> firstSector, lastSector |-> lastSector,
       freeOffset |-> freeOffset, maxRecord |-> maxRecord, last |-> last,
       fault |-> fault, worn |-> worn, initFails |-> initFails,
       stuck |-> stuck ]

SetM(m) ==
    /\ data' = m.data
    /\ firstSector' = m.firstSector
    /\ lastSector' = m.lastSector
    /\ freeOffset' = m.freeOffset
    /\ maxRecord' = m.maxRecord
    /\ last' = m.last
    /\ fault' = m.fault
    /\ probe' = NoProbe
    /\ UNCHANGED << size, sectorMask, saved, worn, initFails, torn, stuck, call, flash >>

\* the payload the caller writes into its k-th record: len bytes of value k
Payload(k, len) == [ i \in 1..len |-> k ]

\* the sequence stored in the header of the sector that holds addr
MediaSequence(m, addr) ==
    LET s == SectorAddress(m, addr)
    IN  [ i \in 1..4 |-> m.data[s + 3 + i] ]

\* ghost entry for a record that BeginWrite has just allocated in machine m
HistEntry(m, writer, len) ==
    [ id |-> Len(hist) + 1, len |-> len, addr |-> writer.addr,
      size |-> writer.length, sector |-> m.lastSector, seq |-> m.last.sequence,
      written |-> FALSE, committed |-> FALSE, afterScan |-> lastOp = "Scan" ]

\* the caller may still use its writer: the record was allocated by this engine,
\* is not committed, and its sector has not been put in service again since
RwUsable ==
    /\ rw.open
    /\ MediaSequence(M, hist[rw.id].sector) = hist[rw.id].seq

\* every record was written by one engine that ran Scan once, on the blank device
SingleEngine ==
    /\ nRestarts = 0
    /\ \A i \in 2..Len(hist) : ~hist[i].afterScan

\* what the caller observes of the engine before the teardown: whether it is the
\* one engine that wrote the device and still runs, LastSectorAddress(), the
\* forward enumeration, and the number of records allocated so far
NoSnapshot == [ single |-> FALSE, lastSector |-> 0, enum |-> << >>, n |-> 0 ]
Snapshot ==
    IF SingleEngine /\ fault = "none"
    THEN [ single |-> TRUE, lastSector |-> lastSector,
           enum |-> ForwardEnumeration(M), n |-> Len(hist) ]
    ELSE NoSnapshot

\* the fields of a JournalStorage object after construction, and the caller
JournalAtRest ==
    /\ firstSector = 0
    /\ lastSector = 0
    /\ freeOffset = 0
    /\ maxRecord = 0
    /\ last = SectorInfo0
    /\ rw = [ addr |-> 0, length |-> 0, open |-> FALSE, id |-> 0 ]
    /\ scanned = FALSE
    /\ fault = IF InitializeAccepts(size, sectorMask + 1) THEN "none" ELSE "Initialize"
    /\ hist = << >>
    /\ nRestarts = 0
    /\ lastOp = "none"
    /\ probe = NoProbe
    /\ saved = NoSnapshot
    /\ torn = NoTorn

\* no call on a device or a view is being looked at
NoCall == [ op |-> "none" ]
\* no SPI flash driver is being looked at
NoFlash == [ holder |-> 0 ]

\* the journal object and the caller, once the device is constructed
InitJournal ==
    /\ call = NoCall
    /\ flash = NoFlash
    /\ JournalAtRest

\* TestByteStorage erases every sector, and SimpleVariableJournalFormat
\* initialises every sector it is given
Healthy ==
    /\ worn = { }
    /\ initFails = FALSE
    /\ stuck = { }

\* a blank device of one of the geometries
Init ==
    /\ \E g \in Geometries : size = g[1] /\ sectorMask = g[2] - 1
    /\ data = [ a \in 0..(size - 1) |-> 255 ]
    /\ Healthy
    /\ InitJournal

\* sector headers a device may hold: erased, valid with one of MediaSequences,
\* a foreign magic, and a sequence programmed without its magic
MediaSequences ==
    { << 1, 0, 0, 0 >>, << 2, 0, 0, 0 >>, << 0, 0, 0, 0 >>, << 255, 255, 255, 255 >> }
MediaHeaders ==
    { [ i \in 1..8 |-> 255 ] }
    \cup { magic \o sq : sq \in MediaSequences }
    \cup { << 84, 69, 83, 0, 1, 0, 0, 0 >>, << 255, 255, 255, 255, 1, 0, 0, 0 >> }
\* record areas of a 16-byte sector: erased, one committed record, a full
\* sector, an uncommitted record, a zero-length record, one free byte, and a
\* record header that runs past the sector
MediaRecords ==
    { << 255, 255, 255, 255, 255, 255, 255, 255 >>,
      << 1, 0, 7, 255, 255, 255, 255, 255 >>,
      << 6, 0, 7, 7, 7, 7, 7, 7 >>,
      << 1, 128, 255, 255, 255, 255, 255, 255 >>,
      << 0, 0, 255, 255, 255, 255, 255, 255 >>,
      << 5, 0, 7, 7, 7, 7, 7, 255 >>,
      << 52, 18, 7, 7, 255, 255, 255, 255 >> }
SectorImages == { h \o r : h \in MediaHeaders, r \in MediaRecords }

\* a two-sector device with any of the sector images in each sector
InitMedia ==
    /\ size = 32 /\ sectorMask = 15
    /\ \E i0 \in SectorImages, i1 \in SectorImages :
         data = [ a \in 0..31 |-> IF a < 16 THEN i0[a + 1] ELSE i1[a - 15] ]
    /\ Healthy
    /\ InitJournal

DoScan ==
    /\ fault = "none"
    /\ SetM(Scan(M))
    /\ scanned' = TRUE
    /\ lastOp' = "Scan"
    /\ UNCHANGED << rw, hist, nRestarts >>

DoBeginWrite(len) ==
    /\ fault = "none" /\ scanned
    /\ Len(hist) < MaxWrites
    /\ LET bw == BeginWrite(M, len)
       IN  /\ SetM(bw.m)
           /\ IF bw.ret
              THEN /\ hist' = Append(hist, HistEntry(bw.m, bw.writer, len))
                   /\ rw' = [ addr |-> bw.writer.addr, length |-> bw.writer.length,
                              open |-> TRUE, id |-> Len(hist) + 1 ]
              ELSE UNCHANGED << hist, rw >>
    /\ lastOp' = "other"
    /\ UNCHANGED << scanned, nRestarts >>

DoWriterWrite ==
    /\ fault = "none" /\ scanned
    /\ RwUsable /\ ~hist[rw.id].written
    /\ SetM(WriterWrite(M, [ addr |-> rw.addr, length |-> rw.length ],
                        Payload(rw.id, hist[rw.id].len)))
    /\ hist' = [ hist EXCEPT ![rw.id].written = TRUE ]
    /\ lastOp' = "other"
    /\ UNCHANGED << rw, scanned, nRestarts >>

DoEndWrite ==
    /\ fault = "none" /\ scanned
    /\ RwUsable
    /\ LET m1 == EndWrite(M, [ addr |-> rw.addr, length |-> rw.length ])
       IN  /\ SetM(m1)
           /\ hist' = [ hist EXCEPT ![rw.id].committed = ~Failed(m1) ]
    /\ rw' = [ rw EXCEPT !.open = FALSE ]
    /\ lastOp' = "other"
    /\ UNCHANGED << scanned, nRestarts >>

DoWrite(len) ==
    /\ fault = "none" /\ scanned
    /\ Len(hist) < MaxWrites
    /\ LET bw == BeginWrite(M, len)
           wr == Write(M, Payload(Len(hist) + 1, len))
       IN  /\ SetM(wr.m)
           /\ IF bw.ret
              THEN hist' = Append(hist,
                       [ HistEntry(bw.m, bw.writer, len) EXCEPT
                           !.written = TRUE, !.committed = wr.ret ])
              ELSE UNCHANGED hist
    /\ lastOp' = "other"
    /\ UNCHANGED << rw, scanned, nRestarts >>

DoCloseSector ==
    /\ fault = "none" /\ scanned
    /\ SetM(CloseSector(M))
    /\ lastOp' = "CloseSector"
    /\ UNCHANGED << rw, scanned, hist, nRestarts >>

\* the program stops (teardown, reset or abort) and a new engine is constructed
\* over the same device
Restart ==
    /\ nRestarts < MaxRestarts
    /\ scanned
    /\ firstSector' = 0
    /\ lastSector' = 0
    /\ freeOffset' = 0
    /\ maxRecord' = 0
    /\ last' = SectorInfo0
    /\ fault' = "none"
    /\ scanned' = FALSE
    /\ rw' = [ rw EXCEPT !.open = FALSE ]
    /\ nRestarts' = nRestarts + 1
    /\ lastOp' = "other"
    /\ probe' = NoProbe
    /\ saved' = Snapshot
    /\ UNCHANGED << size, sectorMask, data, hist, worn, initFails, torn, stuck, call, flash >>

\* the size InitRecord settles on for the first record of a sector of a device
\* with large sectors, whose content is not modelled; the computation does not
\* depend on the journal, so it is explored before the first call only
ProbeInitRecord ==
    /\ fault = "none"
    /\ lastOp = "none"
    /\ probe = NoProbe
    /\ \E T \in LargeSectorSizes, len \in WriteLengths \cup LargeSectorSizes :
         probe' = [ sectorSize |-> T, length |-> len,
                    size |-> InitRecordSize([ sectorMask |-> T - 1 ],
                                 [ addr |-> PageHeaderSize, length |-> T - PageHeaderSize ],
                                 len) ]
    /\ UNCHANGED << size, sectorMask, data, firstSector, lastSector, freeOffset,
                    maxRecord, last, rw, scanned, fault, hist, nRestarts, lastOp, saved,
                    worn, initFails, torn, stuck, call, flash >>

Next ==
    \/ DoScan
    \/ \E len \in WriteLengths : Len(hist) < MaxClosedWrites /\ DoWrite(len)
    \/ DoCloseSector
    \/ Restart

NextWrites ==
    \/ DoScan
    \/ \E len \in WriteLengths : DoWrite(len)
    \/ Restart

\* callers that only use Write, with restarts
SpecWrites == Init /\ [][NextWrites]_vars

NextMedia ==
    \/ DoScan
    \/ \E len \in MediaLengths : DoWrite(len)

\* a journal started on a device with arbitrary content
SpecMedia == InitMedia /\ [][NextMedia]_vars

NextOversize ==
    \/ NextWrites
    \/ ProbeInitRecord

\* the same callers, and the record sizes of devices with large sectors
SpecOversize == Init /\ [][NextOversize]_vars

\* callers that use Write and CloseSector, with restarts
Spec == Init /\ [][Next]_vars

NextRecords ==
    \/ DoScan
    \/ \E len \in BeginLengths : Len(hist) < MaxBegins /\ DoBeginWrite(len)
    \/ DoWriterWrite
    \/ DoEndWrite

\* callers that allocate, fill and commit in separate calls
SpecRecords == Init /\ [][NextRecords]_vars

----------------------------------------------------------------------------
(* Ghost views of the history *)

\* the bytes record h holds: what the caller programmed through the writer,
\* or the erased bytes when it programmed nothing
Stored(h) ==
    IF h.written THEN SubSeq(Payload(h.id, h.len), 1, h.size)
    ELSE [ i \in 1..h.size |-> 255 ]

\* the sector of record h has not been put in service again since h was allocated
Live(h) == MediaSequence(M, h.sector) = h.seq

\* the payloads of a sequence of enumerated records
Payloads(recs) == [ i \in 1..Len(recs) |-> recs[i].bytes ]

\* the indices in hist, in order, that satisfy P
RECURSIVE Select(_, _, _)
Select(P(_), i, acc) ==
    IF i > Len(hist) THEN acc
    ELSE Select(P, i + 1, IF P(hist[i]) THEN Append(acc, i) ELSE acc)

StoredOf(ids) == [ i \in 1..Len(ids) |-> Stored(hist[ids[i]]) ]

\* the caller is between two calls of a running program
Idle == scanned /\ fault = "none"

----------------------------------------------------------------------------
(* C1 *)

\* C1: from a blank device and Scan, after any sequence of Write calls the forward
\* enumeration yields a suffix of the written payloads, in write order, each once,
\* and nothing that was not written.  (A payload longer than its record is
\* compared up to the record's size.)
C1_EnumerationIsSuffix ==
    (Idle /\ nRestarts = 0) =>
        LET e == ForwardEnumeration(M)
        IN  /\ e.ok
            /\ \E k \in 0..Len(hist) :
                 Payloads(e.recs) = [ i \in 1..(Len(hist) - k) |-> Stored(hist[k + i]) ]

----------------------------------------------------------------------------
(* C2 *)

CommittedLive(h) == h.committed /\ h.size > 0 /\ Live(h)

\* C2: when only some BeginWrite calls are followed by EndWrite, the forward
\* enumeration yields exactly the payloads of the committed records, in allocation
\* order: an uncommitted record is skipped and hides no committed record after it.
\* (Read for the records whose sector is still in the ring and whose payload is
\* not empty.)
C2_ExactlyCommitted ==
    Idle =>
        LET e == ForwardEnumeration(M)
        IN  /\ e.ok
            /\ Payloads(e.recs) = StoredOf(Select(CommittedLive, 1, << >>))

----------------------------------------------------------------------------
(* C3 *)

----------------------------------------------------------------------------
(* C4 *)

SectorBytes(dat, sector) == [ i \in 1..(sectorMask + 1) |-> dat[sector + i - 1] ]

\* a BeginWrite of this step has allocated a record
Allocates == Len(hist') = Len(hist) + 1

\* C4: when Scan has found the highest-sequence sector full, the next BeginWrite
\* rotates to the next sector of the ring; the full sector is neither erased nor
\* re-initialised.  (Read for rings of more than one sector.)
C4_FullSectorRotates ==
    [][ ( /\ lastOp = "Scan" /\ fault = "none"
          /\ SectorIsValid(last) /\ freeOffset = 0
          /\ size > SectorSize(M)
          /\ Allocates )
        => ( /\ hist'[Len(hist')].sector # lastSector
             /\ SectorBytes(data', lastSector) = SectorBytes(data, lastSector) ) ]_vars

----------------------------------------------------------------------------
(* C5 *)

\* C5: one Write(p) on a freshly scanned blank journal followed by enumeration
\* returns exactly one record, whose length and bytes are those of p.  (A payload
\* longer than its record is compared up to the record's size.)
C5_RoundTrip ==
    (Idle /\ nRestarts = 0 /\ Len(hist) = 1) =>
        LET e == ForwardEnumeration(M)
        IN  /\ e.ok
            /\ Len(e.recs) = 1
            /\ e.recs[1].len = Len(Stored(hist[1]))
            /\ e.recs[1].bytes = Stored(hist[1])

----------------------------------------------------------------------------
(* C6 *)

\* record j follows a committed zero-length record in its sector
AfterZeroLength(j) ==
    \E i \in 1..(j - 1) :
        /\ hist[i].committed /\ hist[i].size = 0 /\ Live(hist[i])
        /\ hist[i].sector = hist[j].sector /\ hist[i].seq = hist[j].seq
        /\ hist[i].addr < hist[j].addr

\* C6: a zero-length record is permitted and round-trips: enumeration still
\* reaches the committed records after it, and Scan still sets freeOffset to the
\* first unprogrammed record header of the last sector.
C6_ZeroLengthRecord ==
    Idle =>
        LET e == ForwardEnumeration(M)
        IN  /\ \A j \in 1..Len(hist) :
                 (CommittedLive(hist[j]) /\ AfterZeroLength(j)) =>
                     \E r \in 1..Len(e.recs) :
                         /\ e.recs[r].addr = hist[j].addr
                         /\ e.recs[r].bytes = Stored(hist[j])
            /\ (lastOp = "Scan" /\ freeOffset # 0 /\ freeOffset + 1 <= sectorMask) =>
                 /\ data[lastSector + freeOffset] = 255
                 /\ data[lastSector + freeOffset + 1] = 255

----------------------------------------------------------------------------
(* C7 *)

\* the machine after the step
MPrime == [ size |-> size', sectorMask |-> sectorMask', data |-> data',
            firstSector |-> firstSector', lastSector |-> lastSector',
            freeOffset |-> freeOffset', maxRecord |-> maxRecord', last |-> last',
            fault |-> fault', worn |-> worn', initFails |-> initFails',
            stuck |-> stuck' ]

\* the payloads of the records of h that are committed, not empty, and whose
\* sector has not been put in service again in machine m
RECURSIVE StoredIn(_, _, _, _)
StoredIn(m, h, i, acc) ==
    IF i > Len(h) THEN acc
    ELSE StoredIn(m, h, i + 1,
             IF h[i].committed /\ h[i].size > 0
                /\ MediaSequence(m, h[i].sector) = h[i].seq
             THEN Append(acc, IF h[i].written
                              THEN SubSeq(Payload(h[i].id, h[i].len), 1, h[i].size)
                              ELSE [ k \in 1..h[i].size |-> 255 ])
             ELSE acc)

\* the step allocates a record in the sector that was firstSector
Wraps ==
    /\ Allocates /\ fault' = "none"
    /\ lastSector' # lastSector /\ lastSector' = firstSector

\* C7: when lastSector advances onto firstSector, firstSector moves to the next
\* Valid sector, the overwritten sector is erased and re-initialised with the
\* next sequence, and the enumeration afterwards returns no record of the
\* overwritten sector and every other committed record of the ring, in write
\* order.
C7_RingWrap ==
    [][ Wraps =>
          /\ firstSector' = NextSectorAddr(M, lastSector')
          /\ MediaSequence(MPrime, lastSector') = U32Inc(last.sequence)
          /\ LET e == ForwardEnumeration(MPrime)
             IN  /\ e.ok
                 /\ Payloads(e.recs) = StoredIn(MPrime, hist', 1, << >>) ]_vars

----------------------------------------------------------------------------
(* C8 *)

RingSectors == size \div SectorSize(M)

\* the last n records were written with at least a sector of data each, by n
\* calls with no Scan between them
LastAreOversize(n) ==
    /\ Len(hist) >= n
    /\ \A i \in (Len(hist) - n + 1)..Len(hist) : hist[i].len >= SectorSize(M)
    /\ \A i \in (Len(hist) - n + 2)..Len(hist) : ~hist[i].afterScan

\* BeginWrite of at least a sector returns true with a writer of size s(T) that
\* starts at the first record position of a sector
OversizeBeginWrite(s(_)) ==
    Idle =>
        \A len \in WriteLengths :
            len >= SectorSize(M) =>
                LET bw == BeginWrite(M, len)
                IN  /\ ~Failed(bw.m) /\ bw.ret
                    /\ bw.writer.length = s(SectorSize(M))
                    /\ bw.writer.length < SectorSize(M)
                    /\ bw.writer.addr = bw.m.lastSector + PageHeaderSize + RecordHeaderSize

\* the same size for the first record of a large sector
OversizeProbe(s(_)) ==
    (probe # NoProbe /\ probe.length >= probe.sectorSize) =>
        /\ probe.size = s(probe.sectorSize)
        /\ probe.size < probe.sectorSize

\* after 2N such writes the enumeration yields exactly the last N, in order
OversizeRing ==
    (Idle /\ LastAreOversize(2 * RingSectors)) =>
        LET e == ForwardEnumeration(M)
        IN  /\ e.ok
            /\ Payloads(e.recs) =
                 [ i \in 1..RingSectors |-> Stored(hist[Len(hist) - RingSectors + i]) ]

WholeSector(T) == T - PageHeaderSize - RecordHeaderSize
ClampedSector(T) == Min(MaxPayload, WholeSector(T))

\* C8 as stated: BeginWrite(length >= T) returns true with a writer of Size()
\* T - 8 - 2, the record occupies one whole sector, and after 2N of them on an
\* N-sector ring the enumeration yields exactly the last N, in order.
C8_OversizeFillsSector ==
    /\ OversizeBeginWrite(WholeSector)
    /\ OversizeProbe(WholeSector)
    /\ OversizeRing

\* C8 amended: the writer's Size() is min(0x7FFF, T - 8 - 2), below T; where that
\* is T - 8 - 2 the record occupies its whole sector, and after 2N of them on an
\* N-sector ring the enumeration yields exactly the last N, in order.
C8_OversizeClamped ==
    /\ OversizeBeginWrite(ClampedSector)
    /\ OversizeProbe(ClampedSector)
    /\ (WholeSector(SectorSize(M)) <= MaxPayload => OversizeRing)

\* a two-sector ring that has taken four oversize writes
C8_Witness ==
    /\ Idle /\ RingSectors = 2 /\ LastAreOversize(4)
    /\ firstSector # lastSector

----------------------------------------------------------------------------
(* C9 *)

\* C9: CloseSector() followed by BeginWrite allocates in a sector different from
\* the sector of the previously allocated record.
C9_CloseSectorRotates ==
    [][ ( /\ lastOp = "CloseSector" /\ fault = "none"
          /\ Len(hist) >= 1 /\ Allocates )
        => hist'[Len(hist')].sector # hist[Len(hist)].sector ]_vars

----------------------------------------------------------------------------
(* C10 *)

\* C10: a second Scan directly after a Scan leaves firstSector, lastSector,
\* freeOffset and last as the first one left them, whatever the device holds.
C10_ScanIdempotent ==
    (lastOp = "Scan" /\ fault = "none") =>
        LET n == Scan(M)
        IN  /\ ~Failed(n)
            /\ n.firstSector = firstSector
            /\ n.lastSector = lastSector
            /\ n.freeOffset = freeOffset
            /\ n.last = last

\* a Scan has found records on a device that another engine filled: the ring
\* spans both sectors and the last one has room
C10_Witness ==
    /\ lastOp = "Scan" /\ fault = "none" /\ hist = << >>
    /\ firstSector # lastSector /\ freeOffset > PageHeaderSize

----------------------------------------------------------------------------
(* C11 *)

\* the header of the sector at addr as the format scans it
HeaderOf(m, addr) == ScanSector(m, SectorSpan(m, addr), SectorInfo0, << >>).info

\* the sector addresses met when walking the ring from a to b
RECURSIVE RingWalk(_, _, _, _)
RingWalk(m, a, b, acc) ==
    IF a = b THEN Append(acc, a)
    ELSE RingWalk(m, NextSectorAddr(m, a), b, Append(acc, a))

\* the sequences of the Valid sectors among the addresses walk, in that order
RECURSIVE ValidSequences(_, _, _, _)
ValidSequences(m, walk, i, acc) ==
    IF i > Len(walk) THEN acc
    ELSE ValidSequences(m, walk, i + 1,
             IF SectorIsValid(HeaderOf(m, walk[i]))
             THEN Append(acc, HeaderOf(m, walk[i]).sequence)
             ELSE acc)

\* the sequences of the Valid sectors from firstSector to lastSector
RingSequences ==
    ValidSequences(M, RingWalk(M, firstSector, lastSector, << >>), 1, << >>)

\* C11: whenever a public operation has returned and firstSector # lastSector,
\* the sequences of the Valid sectors met from firstSector to lastSector increase
\* by exactly one modulo 2^32 from each Valid sector to the next.
C11_ContiguousRun ==
    (Idle /\ firstSector # lastSector) =>
        \A i \in 1..(Len(RingSequences) - 1) :
            RingSequences[i + 1] = U32Inc(RingSequences[i])

----------------------------------------------------------------------------
(* C12 *)

\* NewSector has returned inside the BeginWrite of this step: the engine was
\* at the start or the end of a sector, or the record did not fit and the
\* engine moved on
NewSectorReturned ==
    /\ Allocates /\ fault = "none"
    /\ \/ freeOffset = 0
       \/ freeOffset >= SectorSize(M)
       \/ lastSector' # lastSector

\* the sequence that follows the one of the last sector before the step, 1 when
\* that sector is not Valid
NextSequence ==
    U32Inc(IF SectorIsValid(HeaderOf(M, lastSector))
           THEN HeaderOf(M, lastSector).sequence
           ELSE << 0, 0, 0, 0 >>)

\* C12: each time NewSector returns, the sector at lastSector scans as Valid with
\* the sequence of the previous last sector plus one modulo 2^32, or 1 when the
\* journal held no Valid sector, and LastSector().sequence is the sequence
\* stored on the media.
C12_NewSectorSequence ==
    [][ NewSectorReturned =>
          /\ HeaderOf(MPrime, lastSector').state = "Valid"
          /\ HeaderOf(MPrime, lastSector').sequence = NextSequence
          /\ last'.sequence = MediaSequence(MPrime, lastSector') ]_vars

\* NewSector has put a sector in service after the sequence 0xFFFFFFFF: the
\* engine wrote into the sector with that sequence, then moved on, and the new
\* sequence is 0
C12_Witness ==
    /\ Idle /\ Len(hist) >= 1 /\ SectorIsValid(last)
    /\ last.sequence = << 0, 0, 0, 0 >>
    /\ hist[Len(hist)].seq = << 0, 0, 0, 0 >>
    /\ hist[Len(hist)].addr = lastSector + PageHeaderSize + RecordHeaderSize
    /\ MediaSequence(M, PreviousSectorAddr(M, lastSector)) = << 255, 255, 255, 255 >>
    /\ Len(hist) >= 2 /\ hist[1].sector # lastSector

----------------------------------------------------------------------------
(* C13 *)

\* sequences on both sides of the 2^32 boundary, and two that are half the
\* range away from 0
WrapSequences ==
    { << 254, 255, 255, 255 >>, << 255, 255, 255, 255 >>, << 0, 0, 0, 0 >>,
      << 1, 0, 0, 0 >>, << 255, 255, 255, 127 >>, << 1, 0, 0, 128 >> }
\* a sector that is erased, or in service with one of WrapSequences and no record
WrapImages ==
    { [ i \in 1..16 |-> 255 ] }
    \cup { magic \o sq \o [ i \in 1..8 |-> 255 ] : sq \in WrapSequences }

\* a four-sector device with any of WrapImages in each sector
InitWrap ==
    /\ size = 64 /\ sectorMask = 15
    /\ \E im \in [ 0..3 -> WrapImages ] :
         data = [ a \in 0..63 |-> im[a \div 16][(a % 16) + 1] ]
    /\ Healthy
    /\ InitJournal

NextWrap ==
    \/ DoScan
    \/ Len(hist) < MaxWrapWrites /\ DoWrite(6)

\* a journal started on a device whose sequences are about to wrap
SpecWrap == InitWrap /\ [][NextWrap]_vars

SectorAddrs == { a \in 0..(size - 1) : a % SectorSize(M) = 0 }
ValidSectors == { a \in SectorAddrs : SectorIsValid(HeaderOf(M, a)) }
\* the first Valid sector Scan meets: its sequence is baseSeq
FirstValid == CHOOSE a \in ValidSectors : \A b \in ValidSectors : a <= b

RECURSIVE U32Add(_, _)
U32Add(w, n) == IF n = 0 THEN w ELSE U32Add(U32Inc(w), n - 1)

\* the Valid sectors hold distinct sequences s, s + 1, ... that pass from
\* 0xFFFFFFFF to 0
RunCrossesBoundary ==
    /\ Cardinality(ValidSectors) >= 2
    /\ \E a \in ValidSectors :
         /\ { MediaSequence(M, b) : b \in ValidSectors }
              = { U32Add(MediaSequence(M, a), k) : k \in 0..(Cardinality(ValidSectors) - 1) }
         /\ MediaSequence(M, a)[4] = 255
    /\ \E b \in ValidSectors : MediaSequence(M, b) = << 0, 0, 0, 0 >>
    /\ \A a, b \in ValidSectors : a # b => MediaSequence(M, a) # MediaSequence(M, b)

\* C13: after Scan, when the sequences of the Valid sectors form a contiguous
\* run that crosses the 2^32 boundary, lastSector is the sector whose sequence
\* is wrap-greater than every other one, wherever the run lies in the ring; and
\* on any device a sector other than the first Valid one is selected only if
\* its sequence is wrap-greater than the sequence of the first Valid sector,
\* and no Valid sector after it is wrap-greater than both.
C13_WrapAwareSelection ==
    (lastOp = "Scan" /\ fault = "none" /\ ValidSectors # { }) =>
        /\ lastSector \in ValidSectors
        /\ RunCrossesBoundary =>
              \A a \in ValidSectors \ { lastSector } :
                  OVF_GT(MediaSequence(M, lastSector), MediaSequence(M, a))
        /\ lastSector # FirstValid =>
              OVF_GT(MediaSequence(M, lastSector), MediaSequence(M, FirstValid))
        /\ \A a \in ValidSectors :
              a > lastSector =>
                  ~(/\ OVF_GT(MediaSequence(M, a), MediaSequence(M, lastSector))
                    /\ OVF_GT(MediaSequence(M, a), MediaSequence(M, FirstValid)))

\* Scan has selected the sector with sequence 0 of a run 0xFFFFFFFE,
\* 0xFFFFFFFF, 0 that does not start at the first sector of the device
C13_Witness ==
    /\ lastOp = "Scan" /\ fault = "none"
    /\ RunCrossesBoundary
    /\ Cardinality(ValidSectors) = 3
    /\ MediaSequence(M, lastSector) = << 0, 0, 0, 0 >>
    /\ lastSector = 0
    /\ MediaSequence(M, 48) = << 255, 255, 255, 255 >>
    /\ MediaSequence(M, 32) = << 254, 255, 255, 255 >>

----------------------------------------------------------------------------
(* C14 *)

\* power is lost while the caller programs the payload of its record: the
\* first k bytes are on the media, and a new engine is constructed
PowerLossInWrite ==
    /\ fault = "none" /\ scanned
    /\ nRestarts < MaxRestarts
    /\ RwUsable /\ ~hist[rw.id].written
    /\ \E k \in 1..(rw.length - 1) :
         data' = WriterWrite(M, [ addr |-> rw.addr, length |-> rw.length ],
                             SubSeq(Payload(rw.id, hist[rw.id].len), 1, k)).data
    /\ firstSector' = 0
    /\ lastSector' = 0
    /\ freeOffset' = 0
    /\ maxRecord' = 0
    /\ last' = SectorInfo0
    /\ fault' = "none"
    /\ scanned' = FALSE
    /\ rw' = [ rw EXCEPT !.open = FALSE ]
    /\ nRestarts' = nRestarts + 1
    /\ lastOp' = "other"
    /\ probe' = NoProbe
    /\ saved' = NoSnapshot
    /\ UNCHANGED << size, sectorMask, hist, worn, initFails, torn, stuck, call, flash >>

NextTorn ==
    \/ NextRecords
    \/ Restart
    \/ PowerLossInWrite

\* callers that allocate, fill and commit in separate calls, and lose power
SpecTorn == Init /\ [][NextTorn]_vars

\* record h was allocated and never committed, and its header is on the media
TornRecord(h) == ~h.committed /\ Live(h)

\* the state in which the format scans the record whose payload starts at addr
RecordStateAt(m, addr) ==
    ScanRecord(m, RestOfSectorSpan(m, addr - RecordHeaderSize)).info.state

\* C14: after power was lost between InitRecord and CommitRecord, restart and
\* Scan, the torn record scans as Bad, the enumeration does not return it and
\* returns every committed record of its sector, before and after it, and when
\* it lies in the last sector freeOffset is past its end.
C14_TornRecord ==
    (lastOp = "Scan" /\ nRestarts >= 1 /\ fault = "none") =>
        \A j \in 1..Len(hist) :
            TornRecord(hist[j]) =>
                LET e == ForwardEnumeration(M)
                IN  /\ RecordStateAt(M, hist[j].addr) = "Bad"
                    /\ e.ok
                    /\ \A r \in 1..Len(e.recs) : e.recs[r].addr # hist[j].addr
                    /\ \A i \in 1..Len(hist) :
                         ( /\ CommittedLive(hist[i])
                           /\ hist[i].sector = hist[j].sector
                           /\ hist[i].seq = hist[j].seq ) =>
                             \E r \in 1..Len(e.recs) :
                                 /\ e.recs[r].addr = hist[i].addr
                                 /\ e.recs[r].bytes = Stored(hist[i])
                    /\ hist[j].sector = lastSector =>
                         freeOffset >= hist[j].addr + hist[j].size - lastSector

----------------------------------------------------------------------------
(* C15 *)

\* the sequence InitSector assigns
InitSectorSequence(info) ==
    U32Inc(IF SectorIsValid(info) THEN info.sequence ELSE << 0, 0, 0, 0 >>)

\* the device after the first program of InitSector, the sequence word
InitSectorTorn(st, sector, info) ==
    SpanWrite(st, st.data, sector, 4, InitSectorSequence(info)).data

\* the engine inside the NewSector that BeginWrite(len) calls, after the
\* advance and the erase; << >> when that BeginWrite does not call NewSector
InsideNewSector(m, len) ==
    Let(m.freeOffset = 0 \/ m.freeOffset >= SectorSize(m), LAMBDA need :
      IF ~need /\ InitRecord(m, RestOfSectorSpan(m, m.lastSector + m.freeOffset),
                             RecordInfo0, len).info.state = "Valid"
      THEN << >>
      ELSE Let(IF need THEN m ELSE [ m EXCEPT !.freeOffset = SectorSize(m) ], LAMBDA m0 :
           Let(IF m0.freeOffset # 0 THEN AdvanceSector(m0) ELSE m0, LAMBDA m1 :
             << [ m1 EXCEPT !.data = NewSectorErase(m1) ] >>)))

\* power is lost inside InitSector, between the program of the sequence and
\* the program of the magic, and a new engine is constructed
PowerLossInInitSector ==
    /\ fault = "none" /\ scanned
    /\ nRestarts < MaxRestarts
    /\ Len(hist) < MaxWrapWrites
    /\ InsideNewSector(M, 6) # << >>
    /\ LET m == InsideNewSector(M, 6)[1]
       IN  /\ data' = InitSectorTorn(m, SectorSpan(m, m.lastSector), m.last)
           /\ torn' = [ sector |-> m.lastSector,
                        sequence |-> InitSectorSequence(m.last) ]
    /\ firstSector' = 0
    /\ lastSector' = 0
    /\ freeOffset' = 0
    /\ maxRecord' = 0
    /\ last' = SectorInfo0
    /\ fault' = "none"
    /\ scanned' = FALSE
    /\ rw' = [ rw EXCEPT !.open = FALSE ]
    /\ nRestarts' = nRestarts + 1
    /\ lastOp' = "other"
    /\ probe' = NoProbe
    /\ saved' = NoSnapshot
    /\ UNCHANGED << size, sectorMask, hist, worn, initFails, stuck, call, flash >>

NextTornSector ==
    \/ NextWrap
    \/ PowerLossInInitSector

\* the journal on the devices whose sequences wrap, with a power loss
SpecTornSector == InitWrap /\ [][NextTornSector]_vars

\* the sector whose header was torn still holds what the power loss left: the
\* sequence word and nothing else
TornOnMedia ==
    /\ torn.sector # NoSector
    /\ SectorBytes(data, torn.sector)
         = [ i \in 1..(sectorMask + 1) |->
               IF i \in 5..8 THEN torn.sequence[i - 4] ELSE 255 ]

\* this step is a BeginWrite that rotates onto the sector with the torn header
RotatesOntoTorn ==
    /\ TornOnMedia /\ Allocates /\ fault' = "none"
    /\ lastSector' = torn.sector

\* after the step the sector at lastSector holds a Valid header with the
\* sequence of the engine, the header of the record just allocated, and
\* erased bytes
Reinitialised ==
    /\ HeaderOf(MPrime, lastSector').state = "Valid"
    /\ MediaSequence(MPrime, lastSector') = last'.sequence
    /\ last'.sequence = NextSequence
    /\ hist'[Len(hist')].addr = lastSector' + PageHeaderSize + RecordHeaderSize

\* C15: for every sequence InitSector can assign, a sector whose header was
\* torn between the sequence word and the magic word scans as Bad, never as
\* Valid and never as Empty; Scan does not pick it as lastSector; and the next
\* rotation onto it erases and re-initialises it.
C15_TornSectorHeader ==
    /\ [](TornOnMedia =>
            /\ HeaderOf(M, torn.sector).state = "Bad"
            /\ (lastOp = "Scan" /\ fault = "none") => lastSector # torn.sector)
    /\ [][RotatesOntoTorn => Reinitialised]_vars

\* C15 as the code has it: the torn header scans as Bad, or as Empty when the
\* sequence is 0xFFFFFFFF and the header is still all ones, and never as Valid;
\* Scan does not select it as the sector with the highest sequence, and
\* lastSector is its address only when it is sector 0 and no sector is Valid;
\* the next rotation onto it leaves it re-initialised over erased bytes.
C15_TornSectorHeaderNotValid ==
    /\ [](TornOnMedia =>
            /\ HeaderOf(M, torn.sector).state
                 = (IF torn.sequence = << 255, 255, 255, 255 >> THEN "Empty" ELSE "Bad")
            /\ (lastOp = "Scan" /\ fault = "none" /\ lastSector = torn.sector) =>
                 (ValidSectors = { } /\ torn.sector = 0 /\ ~SectorIsValid(last)))
    /\ [][RotatesOntoTorn => Reinitialised]_vars

\* the engine has rotated onto a sector whose header was torn with a sequence
\* other than the one it now holds, after a restart and Scan
C15_Witness ==
    /\ torn.sector # NoSector /\ nRestarts = 1 /\ Idle
    /\ lastSector = torn.sector /\ SectorIsValid(last)
    /\ last.sequence # torn.sequence
    /\ Len(hist) >= 1 /\ hist[Len(hist)].sector = torn.sector
    /\ hist[Len(hist)].seq = last.sequence
    /\ MediaSequence(M, lastSector) = last.sequence

----------------------------------------------------------------------------
(* C16 *)

\* this step is an EndWrite whose CommitRecord has run
Commits == rw.open /\ ~rw'.open /\ fault' = "none"

\* C16: CommitRecord changes exactly one bit on the media: bit 15 of the
\* record's size field goes from 1 to 0; the length bits, the payload and every
\* other byte of the device are unchanged, and the record that scanned as Bad
\* scans as Valid with the length its header held.
C16_CommitOneBit ==
    [][ Commits =>
          /\ data[rw.addr - 1] >= 128
          /\ data'[rw.addr - 1] = data[rw.addr - 1] - 128
          /\ \A a \in 0..(size - 1) : a # rw.addr - 1 => data'[a] = data[a]
          /\ RecordStateAt(M, rw.addr) = "Bad"
          /\ ScanRecord(MPrime, RestOfSectorSpan(MPrime, rw.addr - RecordHeaderSize)).info
               = [ ScanRecord(M, RestOfSectorSpan(M, rw.addr - RecordHeaderSize)).info
                     EXCEPT !.state = "Valid" ] ]_vars

----------------------------------------------------------------------------
(* C17, C18: devices and formats that fail *)

\* a blank device of one of the geometries, some of whose sectors can no
\* longer be erased, under a format that initialises every sector or none
InitFaults ==
    /\ \E g \in Geometries : size = g[1] /\ sectorMask = g[2] - 1
    /\ data = [ a \in 0..(size - 1) |-> 255 ]
    /\ worn \in SUBSET { a \in 0..(size - 1) : a % (sectorMask + 1) = 0 }
    /\ initFails \in BOOLEAN
    /\ stuck = { }
    /\ InitJournal

NextFaults ==
    \/ DoScan
    \/ \E len \in MediaLengths : DoWrite(len)

\* the journal on devices and formats that fail
SpecFaults == InitFaults /\ [][NextFaults]_vars

\* this step is a call of Write by a running program
WriteCalled == scanned /\ fault = "none" /\ lastOp' = "other"

\* C17: if InitSector fails for every sector of the ring, NewSector stops after
\* it has walked the entire ring once, and BeginWrite returns false to the
\* caller: the call returns and no record is allocated.
C17_RingExhaustion ==
    [][ (initFails /\ WriteCalled) => (fault' = "none" /\ hist' = hist) ]_vars

\* C18: when Erase of the candidate sector returns false and nothing is erased,
\* NewSector rotates to the next sector: the sector in which the record is
\* allocated is not a sector that was still programmed and could not be erased.
C18_EraseFailure ==
    [][ (NewSectorReturned /\ fault' = "none") =>
          ~( /\ lastSector' \in worn
             /\ ~IsAll(M, lastSector', 255, SectorSize(M)) ) ]_vars

----------------------------------------------------------------------------
(* C19, C20: allocation at the end of a sector *)

\* a ring of two 16-byte sectors, and one of two sectors that are as large as
\* the sector header; Initialize accepts both
AllocGeometries == { << 32, 16 >>, << 16, 8 >> }
\* payload lengths that leave every amount of space in a 16-byte sector
AllocLengths == { 0, 1, 2, 3 }

InitAlloc ==
    /\ \E g \in AllocGeometries : size = g[1] /\ sectorMask = g[2] - 1
    /\ data = [ a \in 0..(size - 1) |-> 255 ]
    /\ Healthy
    /\ InitJournal

\* the caller asks for the largest record MaximumRecord() reports, for one
\* byte more, or for a small record
NextAlloc ==
    \/ DoScan
    \/ \E len \in AllocLengths : DoBeginWrite(len)
    \/ DoBeginWrite(maxRecord)
    \/ DoBeginWrite(maxRecord + 1)

\* callers that allocate up to the end of the sector
SpecAlloc == InitAlloc /\ [][NextAlloc]_vars

\* this step is a BeginWrite that follows a successful BeginWrite
FollowingBeginWrite ==
    /\ lastOp = "other" /\ fault = "none" /\ Len(hist) >= 1
    /\ Allocates

\* the bytes left in the current sector
SpaceLeft == SectorSize(M) - freeOffset

----------------------------------------------------------------------------
(* C21 *)

\* what another task reads at a suspension point: LastSectorAddress(),
\* LastSector(), and the device at that moment
Observed(m) == [ lastSector |-> m.lastSector, last |-> m.last, data |-> m.data,
                 size |-> m.size, sectorMask |-> m.sectorMask ]

\* the suspension points of the first loop of Scan, from sector addr on: the
\* ScanSector and the yield of every round, with lastSector as the loop has it
RECURSIVE ScanForwardPoints(_, _, _, _)
ScanForwardPoints(m, addr, f, acc) ==
    IF ~(addr < m.size) THEN acc
    ELSE
      Let(ScanSector(m, SectorSpan(m, addr), f.si, << >>), LAMBDA ss :
      Let(Append(acc, Observed([ m EXCEPT !.lastSector = f.lastSector ])), LAMBDA acc1 :
        LET si == ss.info
            f1 == [ f EXCEPT !.si = ss.info ]
        IN  IF ~ss.ok THEN acc1
            ELSE IF si.state = "Empty" \/ ~SectorIsValid(si)
            THEN ScanForwardPoints(m, addr + SectorSize(m), f1, acc1)
            ELSE IF f.lastSector = NoSector
            THEN ScanForwardPoints(m, addr + SectorSize(m),
                     [ f1 EXCEPT !.baseSeq = si.sequence, !.lastSector = addr,
                                 !.siLast = si ], acc1)
            ELSE IF ~ScanReplaces(si, f)
            THEN ScanForwardPoints(m, addr + SectorSize(m), f1, acc1)
            ELSE ScanForwardPoints(m, addr + SectorSize(m),
                     [ f1 EXCEPT !.lastSector = addr, !.siLast = si ], acc1)))

\* the suspension points of Scan up to the end of its first loop
ScanPoints(m) ==
    ScanForwardPoints(m, 0,
        [ lastSector |-> NoSector, siLast |-> SectorInfo0,
          baseSeq |-> << 0, 0, 0, 0 >>, si |-> SectorInfo0, ok |-> TRUE ], << >>)

\* the suspension point of NewSector at storage.IsEmpty, in the BeginWrite(len)
\* that calls it first: AdvanceSector has run, InitSector has not
NewSectorPoints(m, len) ==
    Let(m.freeOffset = 0 \/ m.freeOffset >= SectorSize(m), LAMBDA need :
      IF ~need /\ InitRecord(m, RestOfSectorSpan(m, m.lastSector + m.freeOffset),
                             RecordInfo0, len).info.state = "Valid"
      THEN << >>
      ELSE Let(IF need THEN m ELSE [ m EXCEPT !.freeOffset = SectorSize(m) ], LAMBDA m0 :
             << Observed(IF m0.freeOffset # 0 THEN AdvanceSector(m0) ELSE m0) >>))

\* the pair is consistent: the address is a sector of the device, and an info
\* that is Valid gives the sequence and the first record of a sector that
\* scans as Valid
ConsistentPair(o) ==
    /\ o.lastSector >= 0 /\ o.lastSector < o.size
    /\ o.lastSector % (o.sectorMask + 1) = 0
    /\ SectorIsValid(o.last) =>
          /\ SectorIsValid(HeaderOf(o, o.lastSector))
          /\ HeaderOf(o, o.lastSector).sequence = o.last.sequence
          /\ HeaderOf(o, o.lastSector).firstRecord = o.last.firstRecord

\* C21: at every suspension point inside Scan, BeginWrite, NewSector,
\* AdvanceSector and CloseSector, another task that reads LastSectorAddress()
\* and LastSector() gets a consistent pair: the address is a sector address
\* inside the device, and the info describes the sector at that address.
C21_ConsistentPair ==
    [][ /\ lastOp' = "Scan" =>
              \A i \in 1..Len(ScanPoints(M)) : ConsistentPair(ScanPoints(M)[i])
        /\ Allocates =>
              \A i \in 1..Len(NewSectorPoints(M, hist'[Len(hist')].len)) :
                  ConsistentPair(NewSectorPoints(M, hist'[Len(hist')].len)[i]) ]_vars

----------------------------------------------------------------------------
(* C22 *)

\* a two-sector device with any content that holds no Valid sector
InitNoValid ==
    /\ InitMedia
    /\ ValidSectors = { }

\* a journal started on a device that holds no Valid sector
SpecNoValid == InitNoValid /\ [][NextMedia]_vars

\* sector 0 as Write leaves it when it has put the sector in service with
\* sequence 1 for a record of len bytes: erased but for the header and the
\* committed record
FreshSector(len) ==
    magic \o << 1, 0, 0, 0 >> \o << len, 0 >> \o Payload(1, len)
          \o [ i \in 1..(SectorSize(M) - PageHeaderSize - RecordHeaderSize - len) |-> 255 ]

\* C22: Scan on a device with no Valid sector ends with firstSector =
\* lastSector = 0, freeOffset = 0 and last reset to the default; the first write
\* after it places sector 0 in service with sequence 1, erasing it first when
\* it is not blank.
C22_ScanNoValidSector ==
    /\ []((lastOp = "Scan" /\ fault = "none" /\ ValidSectors = { }) =>
            /\ firstSector = 0 /\ lastSector = 0 /\ freeOffset = 0
            /\ last = SectorInfo0)
    /\ [][ (lastOp = "Scan" /\ ValidSectors = { } /\ lastOp' = "other") =>
            /\ fault' = "none" /\ Allocates
            /\ firstSector' = 0 /\ lastSector' = 0
            /\ last' = [ SectorInfo0 EXCEPT !.sequence = << 1, 0, 0, 0 >>,
                                            !.firstRecord = PageHeaderSize,
                                            !.state = "Valid" ]
            /\ SectorBytes(data', 0) = FreshSector(hist'[1].len)
            /\ SectorBytes(data', 16) = SectorBytes(data, 16) ]_vars

\* the first write has put sector 0 in service with sequence 1 on a device
\* whose other sector keeps a foreign magic and an old record
C22_Witness ==
    /\ Idle /\ Len(hist) = 1 /\ hist[1].afterScan
    /\ lastSector = 0 /\ last.sequence = << 1, 0, 0, 0 >>
    /\ SectorBytes(data, 0) = FreshSector(6)
    /\ SectorBytes(data, 16)
         = << 84, 69, 83, 0, 1, 0, 0, 0 >> \o << 6, 0, 7, 7, 7, 7, 7, 7 >>

----------------------------------------------------------------------------
(* C23 *)

\* the application erases a range of the device
DoErase ==
    /\ fault = "none"
    /\ \E addr \in 0..size :
         \E len \in 0..(size - addr) :
             data' = Erase(M, addr, len).data
    /\ lastOp' = "Erase"
    /\ UNCHANGED << size, sectorMask, firstSector, lastSector, freeOffset, maxRecord,
                    last, rw, scanned, fault, hist, nRestarts, probe, saved, worn,
                    initFails, torn, stuck, call, flash >>

\* the test device with arbitrary content, erased range by range
SpecDevice == InitMedia /\ [][DoErase]_vars

\* the sector at s holds a byte of the range
Intersects(s, addr, len) ==
    \E a \in addr..(addr + len - 1) : SectorAddress(M, a) = s

\* C23: for every addr and len with addr + len <= size, after Erase(addr, len)
\* IsAll(addr, 0xFF, len) is true, every byte of every sector that intersects
\* the range is 0xFF, and every byte of the other sectors is unchanged.
C23_EraseFrame ==
    \A addr \in 0..size :
        \A len \in 0..(size - addr) :
            LET after == [ M EXCEPT !.data = Erase(M, addr, len).data ]
            IN  /\ IsAll(after, addr, 255, len)
                /\ \A s \in SectorAddrs :
                     IF Intersects(s, addr, len)
                     THEN IsAll(after, s, 255, SectorSize(M))
                     ELSE SectorBytes(after.data, s) = SectorBytes(data, s)

----------------------------------------------------------------------------
(* C24 *)

\* the start of the longest run of physically adjacent Valid sectors with
\* consecutive sequences that ends at sector s, walking back at most n sectors
RECURSIVE RunStart(_, _, _)
RunStart(m, s, n) ==
    Let(PreviousSectorAddr(m, s), LAMBDA p :
      IF /\ n > 0
         /\ SectorIsValid(HeaderOf(m, p))
         /\ U32Inc(HeaderOf(m, p).sequence) = HeaderOf(m, s).sequence
      THEN RunStart(m, p, n - 1)
      ELSE s)

\* C24: the backward walk of Scan stops at the first sector that is Bad, Empty,
\* or Valid but not sequence-preceding: firstSector is the start of the longest
\* run of physically adjacent Valid sectors with consecutive sequences that
\* ends at lastSector, and no Bad or Empty sector lies between firstSector and
\* lastSector.
C24_BackwardWalkStops ==
    (lastOp = "Scan" /\ fault = "none" /\ ValidSectors # { }) =>
        /\ firstSector = RunStart(M, lastSector, RingSectors - 1)
        /\ \A i \in 1..Len(RingWalk(M, firstSector, lastSector, << >>)) :
               SectorIsValid(HeaderOf(M, RingWalk(M, firstSector, lastSector, << >>)[i]))

----------------------------------------------------------------------------
(* C25 *)

\* the number of ScanSector calls of one NextSector call
RECURSIVE NextSectorScans(_, _)
NextSectorScans(m, s) ==
    IF s = m.lastSector THEN 0
    ELSE Let(IF s = NoSector THEN m.firstSector ELSE NextSectorAddr(m, s), LAMBDA s1 :
           IF ~(s1 >= 0 /\ s1 < m.size) THEN 0
           ELSE IF SectorIsValid(HeaderOf(m, s1)) THEN 1
           ELSE 1 + NextSectorScans(m, s1))

\* while (NextSector(se)) on a fresh enumerator: the sectors returned, the
\* enumerator left by the call that returned false, and the ScanSector calls
RECURSIVE SectorsForward(_, _, _, _)
SectorsForward(m, s, acc, n) ==
    Let(NextSector(m, s), LAMBDA ns :
      IF ~ns.ok \/ ~ns.ret
      THEN [ sectors |-> acc, ok |-> ns.ok, s |-> ns.s, scans |-> n + NextSectorScans(m, s) ]
      ELSE SectorsForward(m, ns.s, Append(acc, ns.s), n + NextSectorScans(m, s)))

\* while (PreviousSector(se)) on a fresh enumerator
RECURSIVE SectorsBackward(_, _, _)
SectorsBackward(m, s, acc) ==
    Let(PreviousSector(m, s), LAMBDA ps :
      IF ~ps.ok \/ ~ps.ret
      THEN [ sectors |-> acc, ok |-> ps.ok, s |-> ps.s ]
      ELSE SectorsBackward(m, ps.s, Append(acc, ps.s)))

\* the Valid sectors among the addresses walk, in that order
RECURSIVE ValidAmong(_, _, _, _)
ValidAmong(m, walk, i, acc) ==
    IF i > Len(walk) THEN acc
    ELSE ValidAmong(m, walk, i + 1,
             IF SectorIsValid(HeaderOf(m, walk[i])) THEN Append(acc, walk[i]) ELSE acc)

Reverse(sq) == [ i \in 1..Len(sq) |-> sq[Len(sq) + 1 - i] ]

\* C25: with the engine state fixed, repeated NextSector on a fresh enumerator
\* yields exactly the Valid sectors on the ring path from firstSector to
\* lastSector, each once, in ring order, then returns false with the enumerator
\* reset, after at most N sector scans; repeated PreviousSector yields the same
\* sectors in the reverse order.
C25_SectorEnumeration ==
    fault = "none" =>
        LET fwd == SectorsForward(M, NoSector, << >>, 0)
            bwd == SectorsBackward(M, NoSector, << >>)
        IN  /\ fwd.ok /\ bwd.ok
            /\ fwd.sectors
                 = ValidAmong(M, RingWalk(M, firstSector, lastSector, << >>), 1, << >>)
            /\ fwd.s = NoSector /\ bwd.s = NoSector
            /\ fwd.scans <= RingSectors
            /\ bwd.sectors = Reverse(fwd.sectors)

\* the ring path starts after its end and holds a sector that is not Valid
\* between three that are: the enumeration returns three sectors
C25_Witness ==
    /\ Idle /\ firstSector > lastSector
    /\ Len(SectorsForward(M, NoSector, << >>, 0).sectors) = 3
    /\ Len(RingWalk(M, firstSector, lastSector, << >>)) = 4
    /\ SectorsForward(M, NoSector, << >>, 0).scans = 4

----------------------------------------------------------------------------
(* C26 *)

\* the RecordHeader programmed by InitRecord for a payload of n bytes
UnfinishedHeader(n) == << n % 256, 128 + n \div 256 >>

----------------------------------------------------------------------------
(* C27 *)

\* the bytes the first InitSector of NewSector programs, as they read when it
\* is called: the PageHeader of the sector after the blank check and erase
InitSectorTarget(m) ==
    Let(IF m.freeOffset # 0 THEN AdvanceSector(m) ELSE m, LAMBDA m1 :
      Let(NewSectorErase(m1), LAMBDA d :
        [ i \in 1..PageHeaderSize |-> d[m1.lastSector + i - 1] ]))

\* the bytes InitRecord programs at the cursor, as they read when it is called
InitRecordTarget(m) ==
    [ i \in 1..RecordHeaderSize |-> m.data[m.lastSector + m.freeOffset + i - 1] ]

\* C27: every program other than the commit (sector sequence, magic, record
\* header) targets bytes that all read 0xFF, in every reachable state, states
\* reached by Scan on media written by a previous run included.
C27_ProgramsBlankBytes ==
    Idle =>
      IF freeOffset = 0 \/ freeOffset >= SectorSize(M)
      THEN Failed(NewSector(M))
             \/ InitSectorTarget(M) = [ i \in 1..PageHeaderSize |-> 255 ]
      ELSE \A len \in WriteLengths :
             LET rest == RestOfSectorSpan(M, lastSector + freeOffset)
             IN  (lastSector + freeOffset < size
                    /\ InitRecord(M, rest, RecordInfo0, len).info.state = "Valid")
                   => InitRecordTarget(M) = << 255, 255 >>

----------------------------------------------------------------------------
(* C28 *)

\* C28: the assertion of CommitRecord holds for every writer produced by
\* BeginWrite: the payload offset lies in the same sector as the record header
\* two bytes before it, for every payload length (zero included) and every
\* position of the record in the sector, and EndWrite never fails on it.
C28_CommitAssertHolds ==
    /\ fault # "CommitRecord"
    /\ \A i \in 1..Len(hist) :
          CommitAssert(M, [ addr |-> hist[i].addr, length |-> hist[i].size ])

----------------------------------------------------------------------------
(* C29 *)

\* ReadSectorHeader with a buffer of n bytes: [ok, bytes]
ReadSectorHeader(m, s, n, offset) ==
    IF s # NoSector /\ offset < SectorSize(m)
    THEN Let(Min(n, SectorSize(m) - offset), LAMBDA k :
           IF InRange(m, s + offset, k)
           THEN [ ok |-> TRUE, bytes |-> ReadImpl(m, s + offset, k) ]
           ELSE [ ok |-> FALSE, bytes |-> << >> ])
    ELSE [ ok |-> TRUE, bytes |-> << >> ]

\* an enumeration that scans the journal again
Enumerate_Rescans(m) == Scan(m)

\* the engine after a caller has enumerated the journal: NextSector, NextRecord
\* and ReadRecord forwards, then PreviousSector backwards with ReadSectorHeader
\* of every sector; none of them assigns a field of the engine or calls Write
\* or Erase, and a failed ASSERT of a Read stops the program
Enumerate(m) ==
    Let(ForwardEnumeration(m), LAMBDA fwd :
    Let(SectorsBackward(m, NoSector, << >>), LAMBDA bwd :
      IF /\ fwd.ok /\ bwd.ok
         /\ \A i \in 1..Len(bwd.sectors) :
               ReadSectorHeader(m, bwd.sectors[i], PageHeaderSize, 0).ok
      THEN m
      ELSE Fail(m, "Read")))

DoEnumerate ==
    /\ fault = "none"
    /\ SetM(Enumerate(M))
    /\ lastOp' = "Enumerate"
    /\ UNCHANGED << rw, scanned, hist, nRestarts >>

\* writes of the caller that also enumerates
MaxReadWrites == 2

NextRead ==
    \/ DoScan
    \/ \E len \in MediaLengths : Len(hist) < MaxReadWrites /\ DoWrite(len)
    \/ DoEnumerate

\* a caller that scans, writes and enumerates a device with arbitrary content
SpecRead == InitMedia /\ [][NextRead]_vars

----------------------------------------------------------------------------
(* C30 *)

\* the record positions at which the format may find a record it cannot skip
StuckAddrs == { 8, 11, 14 }

\* a device with arbitrary content, read through a format that reports a Bad
\* record with nextRecord = 0 at one address of sector 0
InitStuck ==
    /\ size = 32 /\ sectorMask = 15
    /\ \E i0 \in SectorImages, i1 \in SectorImages :
         data = [ a \in 0..31 |-> IF a < 16 THEN i0[a + 1] ELSE i1[a - 15] ]
    /\ worn = { }
    /\ initFails = FALSE
    /\ \E a \in StuckAddrs : stuck = { a }
    /\ InitJournal

NextStuck ==
    \/ DoScan
    \/ DoEnumerate

SpecStuck == InitStuck /\ [][NextStuck]_vars

\* the enumerator of sector s after while (NextRecord(re)) {}
RecordWalk(s) == ScanRecords(M, EnumerateRecords(s))

\* the walk of sector s ended at a Bad record that could not be skipped
MetUnskippable(s) ==
    /\ SectorIsValid(HeaderOf(M, s))
    /\ RecordWalk(s).ok
    /\ RecordWalk(s).re.r \in stuck
    /\ RecordWalk(s).re.rNext = RecordWalk(s).re.r - 1

\* C30: when NextRecord meets a Bad record that cannot be skipped it returns 0
\* and leaves an enumerator that is not empty, Scan sets freeOffset = 0 for
\* that sector, and a later NextRecord on the same enumerator returns 0 and
\* scans no further address: the enumerator is as it was.
C30_UnskippableRecord ==
    \A s \in SectorAddrs :
      MetUnskippable(s) =>
        /\ ~ReIsEmpty(RecordWalk(s).re)
        /\ (lastOp = "Scan" /\ fault = "none" /\ lastSector = s) => freeOffset = 0
        /\ NextRecord(M, RecordWalk(s).re).ret = 0
        /\ NextRecord(M, RecordWalk(s).re).re = RecordWalk(s).re

----------------------------------------------------------------------------
(* C32 *)

\* 32-bit words: a < b as unsigned numbers, a + b modulo 2^32, int(a) < 0
U32Less(a, b) ==
    \E i \in 1..4 : a[i] < b[i] /\ \A j \in (i + 1)..4 : a[j] = b[j]
U32Plus(a, b) ==
    LET s1 == a[1] + b[1]
        s2 == a[2] + b[2] + s1 \div 256
        s3 == a[3] + b[3] + s2 \div 256
        s4 == a[4] + b[4] + s3 \div 256
    IN  << s1 % 256, s2 % 256, s3 % 256, s4 % 256 >>
IntNegative(a) == a[4] >= 128
\* std::min and std::max on int
IntMin(a, b) ==
    IF IntNegative(a) # IntNegative(b) THEN (IF IntNegative(a) THEN a ELSE b)
    ELSE IF U32Less(a, b) THEN a ELSE b
IntMax(a, b) == IF IntMin(a, b) = a THEN b ELSE a

\* ByteStorageSpan::LimitLength on a target whose size_t and int have 32 bits:
\* std::max(0, std::min(int(this->length - offset), int(length)))
LimitLength32(length, offset, requested) ==
    IntMax(U32(0), IntMin(U32Sub(length, offset), requested))

\* the words 0x7FFFFFFF, 0x80000000 and 0xFFFFFFFF
IntMaxWord == << 255, 255, 255, 127 >>
IntMinWord == << 0, 0, 0, 128 >>
AllOnesWord == << 255, 255, 255, 255 >>

\* the spans, offsets and lengths of the calls explored
SpanAddrs == { U32(0), U32(16) }
SpanLengths == { U32(0), U32(6), U32(16) }
SpanOffsets == { U32(0), U32(1), U32(6), U32(16), U32(17), AllOnesWord }
\* lengths of memory buffers, and lengths given as a plain size_t
BufferLengths == { U32(0), U32(1), U32(5), U32(16), U32(17) }
PlainLengths == BufferLengths \cup { IntMaxWord, IntMinWord, AllOnesWord }
BufferOps == { "Read", "Write" }
PlainOps == { "ReadToRegister", "ReadToPipe", "WriteFromPipe", "Fill" }

\* a view (addr, length) of a device of 32 bytes, and an operation about to be
\* called on it
InitSpan ==
    /\ size = 32 /\ sectorMask = 15
    /\ data = [ a \in 0..31 |-> 255 ]
    /\ Healthy
    /\ JournalAtRest
    /\ flash = NoFlash
    /\ \E a \in SpanAddrs, l \in SpanLengths, o \in SpanOffsets :
         \/ \E op \in BufferOps, n \in BufferLengths :
              call = [ op |-> op, addr |-> a, length |-> l, offset |-> o,
                       requested |-> n, done |-> FALSE ]
         \/ \E op \in PlainOps, n \in PlainLengths :
              call = [ op |-> op, addr |-> a, length |-> l, offset |-> o,
                       requested |-> n, done |-> FALSE ]

\* ByteStorageSpan::Read, ReadToRegister, ReadToPipe, Write, WriteFromPipe and
\* Fill: the address and the length handed to the device
DoSpanCall ==
    /\ call.op \in BufferOps \cup PlainOps
    /\ ~call.done
    /\ call' = [ op |-> call.op, addr |-> call.addr, length |-> call.length,
                 offset |-> call.offset, requested |-> call.requested,
                 done |-> TRUE,
                 toAddr |-> U32Plus(call.addr, call.offset),
                 toLength |-> LimitLength32(call.length, call.offset,
                                            call.requested) ]
    /\ UNCHANGED << size, sectorMask, data, firstSector, lastSector, freeOffset,
                    maxRecord, last, rw, scanned, fault, hist, nRestarts, lastOp,
                    probe, saved, worn, initFails, torn, stuck, flash >>

SpecSpan == InitSpan /\ [][DoSpanCall]_vars

\* max(0, min(len - offset, requested)) on the numbers the words stand for
ClampedLength(length, offset, requested) ==
    IF U32Less(length, offset) THEN U32(0)
    ELSE IF U32Less(U32Sub(length, offset), requested) THEN U32Sub(length, offset)
    ELSE requested

\* C32: every operation of a view (addr, len) called with (offset, requested)
\* reaches the device with address addr + offset and length
\* max(0, min(len - offset, requested)); for every offset, offset > len
\* included, the forwarded range does not extend beyond addr + len.
C32_RangedView ==
    (call.op \in BufferOps \cup PlainOps /\ call.done) =>
        /\ call.toAddr = U32Plus(call.addr, call.offset)
        /\ call.toLength = ClampedLength(call.length, call.offset, call.requested)
        /\ (call.toLength # U32(0)) =>
              ~U32Less(U32Plus(call.addr, call.length),
                       U32Plus(call.toAddr, call.toLength))

----------------------------------------------------------------------------
(* C33 *)

\* the sizes and sector sizes handed to Initialize
MaxDeviceSize == 64
MaxSectorSize == 32

\* a device about to be constructed with Initialize(size, sectorSize)
InitGeometry ==
    /\ size = 32 /\ sectorMask = 15
    /\ data = [ a \in 0..31 |-> 255 ]
    /\ Healthy
    /\ JournalAtRest
    /\ flash = NoFlash
    /\ \E sz \in 0..MaxDeviceSize, T \in 0..MaxSectorSize :
         call = [ op |-> "Initialize", size |-> sz, sectorSize |-> T,
                  done |-> FALSE ]

\* ByteStorage::Initialize: whether its two ASSERTs pass; __builtin_clz and
\* __builtin_ctz of 0 are undefined, so the first one may go either way then
DoInitialize ==
    /\ call.op = "Initialize" /\ ~call.done
    /\ \E passed \in BOOLEAN :
         /\ IF call.sectorSize = 0
            THEN passed => BitAnd(call.size, call.sectorSize) = 0
            ELSE passed = InitializeAccepts(call.size, call.sectorSize)
         /\ call' = [ op |-> "Initialize", size |-> call.size,
                      sectorSize |-> call.sectorSize, done |-> TRUE,
                      passed |-> passed ]
    /\ UNCHANGED << size, sectorMask, data, firstSector, lastSector, freeOffset,
                    maxRecord, last, rw, scanned, fault, hist, nRestarts, lastOp,
                    probe, saved, worn, initFails, torn, stuck, flash >>

SpecGeometry == InitGeometry /\ [][DoInitialize]_vars

\* C33: the assertions of Initialize(size, sectorSize) pass exactly when
\* sectorSize is a power of two that divides size, for every sector count
\* N >= 1, odd or even.
C33_InitializeAccepts ==
    (call.op = "Initialize" /\ call.done) =>
        (call.passed <=>
            /\ IsPowerOfTwo(call.sectorSize)
            /\ call.sectorSize # 0
            /\ call.size % call.sectorSize = 0)

----------------------------------------------------------------------------
(* C34 *)

\* the enumerated record rec lies inside the sector of its header
InsideSector(rec) ==
    LET hdr == rec.addr - RecordHeaderSize
        s   == SectorAddress(M, hdr)
    IN  /\ hdr >= s + PageHeaderSize
        /\ rec.addr + rec.len <= s + SectorSize(M)

\* the enumerated record rec was allocated by a BeginWrite and committed
AllocatedAndCommitted(rec) ==
    \E i \in 1..Len(hist) :
        /\ hist[i].addr = rec.addr /\ hist[i].size = rec.len
        /\ hist[i].committed /\ Live(hist[i])

\* C34: every record NextRecord returns lies inside the enumerated sector
\* (header at or after sector start + 8, payload end at or before the sector
\* end) and was allocated by some BeginWrite and committed by some EndWrite,
\* for every write sequence, those that leave one free byte at the end of a
\* sector included.
C34_EnumeratedRecordsAreReal ==
    Idle =>
        \A i \in 1..Len(ForwardEnumeration(M).recs) :
            /\ InsideSector(ForwardEnumeration(M).recs[i])
            /\ AllocatedAndCommitted(ForwardEnumeration(M).recs[i])

----------------------------------------------------------------------------
(* C35 *)

\* the lengths BeginWrite is asked for: those of Write, and lengths beyond the
\* largest payload of the format
RequestLengths == WriteLengths \cup LargeSectorSizes

----------------------------------------------------------------------------
(* C36 *)

----------------------------------------------------------------------------
(* C37 *)

\* the addresses of the payload span and of the record header of record h
SpanBytes(h) == h.addr..(h.addr + h.size - 1)
HeaderBytes(h) == (h.addr - RecordHeaderSize)..(h.addr - 1)

\* C37: the payload spans handed out by successive BeginWrite calls do not
\* overlap one another nor a sector header or a record header while their
\* sectors have not been reclaimed: each span lies inside one sector, starts
\* right after its own record header, and ends at or before the header of the
\* next allocated record.
C37_SpansDisjoint ==
    fault = "none" =>
      \A i \in 1..Len(hist) :
        Live(hist[i]) =>
          /\ hist[i].addr >= hist[i].sector + PageHeaderSize + RecordHeaderSize
          /\ hist[i].addr + hist[i].size <= hist[i].sector + SectorSize(M)
          /\ \A j \in (i + 1)..Len(hist) :
                Live(hist[j]) =>
                  /\ SpanBytes(hist[i]) \cap SpanBytes(hist[j]) = { }
                  /\ SpanBytes(hist[i]) \cap HeaderBytes(hist[j]) = { }
                  /\ HeaderBytes(hist[i]) \cap SpanBytes(hist[j]) = { }
                  /\ HeaderBytes(hist[i]) \cap HeaderBytes(hist[j]) = { }
          /\ (i < Len(hist) /\ hist[i + 1].sector = hist[i].sector
                /\ Live(hist[i + 1])) =>
                hist[i].addr + hist[i].size <= hist[i + 1].addr - RecordHeaderSize

----------------------------------------------------------------------------
(* C38 *)

\* the place of the record with payload address addr in the enumeration recs,
\* 0 when it is not returned
IndexOf(recs, addr) ==
    IF \E k \in 1..Len(recs) : recs[k].addr = addr
    THEN CHOOSE k \in 1..Len(recs) : recs[k].addr = addr
    ELSE 0

\* two BeginWrite calls of lengths l1 and l2 from machine m, and EndWrite on
\* the two writers in allocation order (inOrder) and in the reverse order
TwoRecords(m, l1, l2) ==
    Let(BeginWrite(m, l1), LAMBDA b1 :
    Let(BeginWrite(b1.m, l2), LAMBDA b2 :
      [ ok       |-> b1.ret /\ b2.ret /\ ~Failed(b2.m),
        noWrap   |-> MediaSequence(b2.m, b1.m.lastSector) = b1.m.last.sequence,
        w1       |-> b1.writer,
        w2       |-> b2.writer,
        inOrder  |-> EndWrite(EndWrite(b2.m, b1.writer), b2.writer),
        reversed |-> EndWrite(EndWrite(b2.m, b2.writer), b1.writer) ]))

\* C38: for two records allocated by two BeginWrite calls with no ring wrap in
\* between, EndWrite on them in either order gives the same device content,
\* and the enumeration returns them in allocation order.
C38_CommitsIndependent ==
    Idle =>
      \A l1 \in BeginLengths, l2 \in BeginLengths :
        Let(TwoRecords(M, l1, l2), LAMBDA t :
          (t.ok /\ t.noWrap) =>
            /\ ~Failed(t.inOrder) /\ ~Failed(t.reversed)
            /\ t.inOrder.data = t.reversed.data
            /\ Let(ForwardEnumeration(t.reversed), LAMBDA e :
                  /\ e.ok
                  /\ IndexOf(e.recs, t.w1.addr) > 0
                  /\ IndexOf(e.recs, t.w1.addr) < IndexOf(e.recs, t.w2.addr)))

----------------------------------------------------------------------------
(* C39 *)

\* the flash behind SPIFlashStorage: flash.Size() and flash.SectorSize()
FlashSize == 64
FlashSectorSize == 16

\* a SPIFlashStorage about to be initialised with Init(start, length), the
\* window inside the flash
InitWindow ==
    /\ size = 32 /\ sectorMask = 15
    /\ data = [ a \in 0..31 |-> 255 ]
    /\ Healthy
    /\ JournalAtRest
    /\ flash = NoFlash
    /\ \E st \in 0..FlashSize, len \in 0..FlashSize :
         /\ st + len <= FlashSize
         /\ call = [ op |-> "StorageInit", start |-> st, length |-> len,
                     done |-> FALSE ]

\* SPIFlashStorage::Init: the size handed to Initialize, whether the
\* assertions of Initialize pass, and whether the two final assertions pass
DoStorageInit ==
    /\ call.op = "StorageInit" /\ ~call.done
    /\ LET sz == IF call.length # 0 THEN call.start + call.length
                 ELSE FlashSize - call.start
       IN  call' = [ op |-> "StorageInit", start |-> call.start,
                     length |-> call.length, done |-> TRUE,
                     Size |-> sz,
                     initialized |-> InitializeAccepts(sz, FlashSectorSize),
                     passed |-> call.start <= FlashSize
                                  /\ call.start + sz <= FlashSize ]
    /\ UNCHANGED << size, sectorMask, data, firstSector, lastSector, freeOffset,
                    maxRecord, last, rw, scanned, fault, hist, nRestarts, lastOp,
                    probe, saved, worn, initFails, torn, stuck, flash >>

SpecWindow == InitWindow /\ [][DoStorageInit]_vars

\* C39: Init(start, length) with length > 0 exposes a storage whose Size() is
\* length; with length = 0 it exposes the flash from start to its end; in both
\* cases start + Size() <= flash size, and the final assertions pass whenever
\* the requested window lies inside the flash.
C39_StorageWindow ==
    (call.op = "StorageInit" /\ call.done) =>
        /\ call.Size = (IF call.length # 0 THEN call.length
                        ELSE FlashSize - call.start)
        /\ call.start + call.Size <= FlashSize
        /\ call.passed

----------------------------------------------------------------------------
(* C31: the SPI flash driver and the tasks that call it *)

\* operations started on the flash by all tasks together
MaxFlashOps == 3

Tasks == { 1, 2 }
\* operations that program or erase, and the read paths
ProgramOps == { "WriteImpl", "Fill", "EraseFirst" }
ReadOps == { "ReadImpl", "ReadToRegister", "ReadToPipe", "IsAll" }
\* the read paths that look into the page cache before they use the bus
CachedOps == { "ReadImpl", "ReadToPipe", "IsAll" }

\* nothing has been put on the bus yet
NoCommand == [ op |-> "none" ]

\* a driver after Init: the bus is free, no program or erase is pending, the
\* chip is idle, and no task is inside the driver
InitFlash ==
    /\ size = 32 /\ sectorMask = 15
    /\ data = [ a \in 0..31 |-> 255 ]
    /\ Healthy
    /\ JournalAtRest
    /\ call = NoCall
    /\ flash = [ holder |-> 0, deviceBusy |-> FALSE, chipBusy |-> FALSE,
                 pc |-> [ t \in Tasks |-> "idle" ],
                 op |-> [ t \in Tasks |-> "none" ],
                 started |-> 0, command |-> NoCommand ]

NotFlash == << size, sectorMask, data, firstSector, lastSector, freeOffset,
               maxRecord, last, rw, scanned, fault, hist, nRestarts, lastOp,
               probe, saved, worn, initFails, torn, stuck, call >>

\* a task calls an operation of the driver: a read path that finds its page
\* in the cache returns at once; ReadToPipe goes for the bus with spi.Acquire,
\* every other operation with SyncAndAcquire
FlashCall(t) ==
    /\ flash.pc[t] = "idle"
    /\ flash.started < MaxFlashOps
    /\ \E op \in ProgramOps \cup ReadOps, hit \in BOOLEAN :
         /\ hit => op \in CachedOps
         /\ flash' = [ flash EXCEPT
                !.started = @ + 1,
                !.op[t] = op,
                !.pc[t] = IF hit THEN "idle"
                          ELSE IF op = "ReadToPipe" THEN "Acquire"
                          ELSE "SyncAndAcquire" ]
    /\ UNCHANGED NotFlash

\* await(spi.Acquire, cs), at the head of SyncAndAcquire, after its yield, or
\* in ReadToPipe: the task gets the bus when it is free
FlashAcquire(t) ==
    /\ flash.pc[t] \in { "SyncAndAcquire", "Reacquire", "Acquire" }
    /\ flash.holder = 0
    /\ flash' = [ flash EXCEPT
           !.holder = t,
           !.pc[t] = IF flash.pc[t] = "Acquire" THEN "Transfer"
                     ELSE IF flash.pc[t] = "SyncAndAcquire" /\ ~flash.deviceBusy
                     THEN "Transfer"
                     ELSE "Status" ]
    /\ UNCHANGED NotFlash

\* the status poll of SyncAndAcquire: when the chip reports ready the pending
\* flag is cleared, otherwise the bus is released and the task yields
FlashStatus(t) ==
    /\ flash.pc[t] = "Status"
    /\ flash' = IF ~flash.chipBusy
                THEN [ flash EXCEPT !.deviceBusy = FALSE, !.pc[t] = "Transfer" ]
                ELSE [ flash EXCEPT !.holder = 0, !.pc[t] = "Reacquire" ]
    /\ UNCHANGED NotFlash

\* the read, program or erase command goes on the bus, then spi.Release(); a
\* program or erase leaves the chip busy and sets deviceBusy
FlashTransfer(t) ==
    /\ flash.pc[t] = "Transfer"
    /\ flash' = [ flash EXCEPT
           !.command = [ op |-> flash.op[t], task |-> t,
                         held |-> flash.holder = t,
                         deviceBusy |-> flash.deviceBusy,
                         chipBusy |-> flash.chipBusy ],
           !.deviceBusy = IF flash.op[t] \in ProgramOps THEN TRUE ELSE @,
           !.chipBusy = IF flash.op[t] \in ProgramOps THEN TRUE ELSE @,
           !.holder = 0,
           !.pc[t] = "idle" ]
    /\ UNCHANGED NotFlash

\* the chip finishes its program or erase
FlashReady ==
    /\ flash.chipBusy
    /\ flash' = [ flash EXCEPT !.chipBusy = FALSE ]
    /\ UNCHANGED NotFlash

NextFlash ==
    \/ \E t \in Tasks : FlashCall(t)
    \/ \E t \in Tasks : FlashAcquire(t)
    \/ \E t \in Tasks : FlashStatus(t)
    \/ \E t \in Tasks : FlashTransfer(t)
    \/ FlashReady

SpecFlash == InitFlash /\ [][NextFlash]_vars

\* C31: every read, program and erase command is put on the bus only while
\* the bus is held and after a previously issued program or erase has been
\* observed complete; no read path transfers data while deviceBusy is set.
C31_BusDiscipline ==
    flash.command # NoCommand =>
        /\ flash.command.held
        /\ ~flash.command.deviceBusy

====
